---- MODULE Spec2Model ----
(***************************************************************************)
(* Chain execution engine of loki-suite: chains, steps, runs and step runs *)
(* as persisted rows, and the detached task that drives one run            *)
(* (internal/service/execution_chain_service.go together with              *)
(* internal/repository/execution_chain_repository.go), and the event       *)
(* fan-out of internal/service/webhook_service.go.                         *)
(*                                                                         *)
(* Spec          one chain, one run, every step option                     *)
(* SpecRegistry  the same with subscriptions deleted and moved             *)
(* SpecOps       several chains: creation, activation, manual and event    *)
(*               trigger                                                   *)
(* SpecFanout    SendEvent, one call after the other                       *)
(* SpecDispatch  SendEvent step by step, calls side by side                *)
(* SpecTrigger   SendEvent step by step with the runs it starts            *)
(* SpecSecurity  subscriptions created, credentials, outgoing requests     *)
(* SpecVerify    VerifyWebhook                                             *)
(* SpecPayload   the request body of a chain step                          *)
(* SpecEngine    one run over steps that continue, retry, pause and sleep, *)
(*               and the request that started it                           *)
(* SpecEngineFair  the same with the run's goroutine kept scheduled        *)
(* SpecConcurrent  two runs of one chain side by side                      *)
(***************************************************************************)
EXTENDS Integers, Sequences, FiniteSets, TLC

VARIABLES
    now,            \* wall clock read by time.Now() and by the store's NOW()
    storageFaults,  \* number of persistence calls that have returned an error so far
    subscriptions,  \* webhook_subscriptions rows: id -> row
    chains,         \* execution_chains rows with their steps, in insertion order
    runs,           \* execution_chain_runs rows, in insertion order
    stepRuns,       \* execution_chain_step_runs rows, in insertion order
    tasks,          \* per run: the goroutine started by ExecuteChain, and its caller
    triggerLog,     \* what each call of ExecuteChainByEvent returned, in call order
    events,         \* webhook_events rows, in insertion order
    eventResults,   \* what each call of SendEvent returned, in call order
    call,           \* a function of the program applied to an input, with its result
    sends,          \* the calls of SendEvent in progress, each with its position
    requests,       \* the HTTP requests sent to subscriber endpoints, in sending order
    verifications   \* what each call of VerifyWebhook was given and returned

vars == <<now, storageFaults, subscriptions, chains, runs, stepRuns, tasks, triggerLog,
          events, eventResults, call, sends, requests, verifications>>

(* The variables the chain engine's own handlers and tasks never write *)
restVars == <<events, eventResults, call, sends, requests, verifications>>

----------------------------------------------------------------------------
(* Bounds of the model *)

MaxTime == 1
MaxChains == 1
MaxRuns == 1
MaxStorageFaults == 1
MaxSteps == 2

(* Inputs the API accepts; the request binding puts no range on them *)
Tenants == {"acme"}
TriggerEvents == {"order.placed"}
WebhookIds == {"w1", "w2", "w3"}
OnSuccessInputs == {"", "stop", "pause"}
OnFailureInputs == {"", "continue"}
MaxRetriesInputs == {-2, 0, 1}
DelaySecondsInputs == {0}

(* What one HTTP call to a step's target can end in: a status code, or a    *)
(* transport error (no response at all)                                     *)
HttpOutcomes ==
    {[transport_error |-> FALSE, status |-> 200],
     [transport_error |-> FALSE, status |-> 400],
     [transport_error |-> FALSE, status |-> 500],
     [transport_error |-> TRUE, status |-> 0]}

NULL == <<>>
Some(x) == <<x>>

----------------------------------------------------------------------------
(* Program constants *)

DefaultMaxRetries == 3
DefaultOnSuccessAction == "continue"
DefaultOnFailureAction == "stop"

ExecutionChainStatusRunning == "running"
ExecutionChainStatusCompleted == "completed"
ExecutionChainStatusFailed == "failed"
ExecutionChainStatusPaused == "paused"

WebhookStatusPending == "pending"
WebhookStatusSent == "sent"
WebhookStatusFailed == "failed"

----------------------------------------------------------------------------
(* Requests *)

CreateExecutionChainStep ==
    [webhook_id : WebhookIds,
     on_success_action : OnSuccessInputs,
     on_failure_action : OnFailureInputs,
     max_retries : MaxRetriesInputs,
     delay_seconds : DelaySecondsInputs]

SeqsUpTo(S, n) == UNION {[1..k -> S] : k \in 1..n}

CreateExecutionChainRequest ==
    [tenant_id : Tenants,
     trigger_event : TriggerEvents,
     steps : SeqsUpTo(CreateExecutionChainStep, MaxSteps)]

----------------------------------------------------------------------------
(* The store *)

(* A persistence call succeeds (TRUE) or returns an error (FALSE); the model *)
(* lets at most MaxStorageFaults calls fail in one behaviour                *)
StoreOutcomes == IF storageFaults < MaxStorageFaults THEN {TRUE, FALSE} ELSE {TRUE}

Fault(ok) == IF ok THEN storageFaults ELSE storageFaults + 1

(* The rows a query without ORDER BY returns come in any order *)
RowOrders(n) == {p \in [1..n -> 1..n] : \A i, j \in 1..n : p[i] = p[j] => i = j}

(* Preload("Steps.Webhook"): the step row with the subscription row it      *)
(* references as it is now, or no row if the subscription is gone           *)
PreloadWebhook(step) ==
    [k \in DOMAIN step \cup {"webhook"} |->
        IF k = "webhook"
            THEN IF step.webhook_id \in DOMAIN subscriptions
                     THEN Some(subscriptions[step.webhook_id])
                     ELSE NULL
            ELSE step[k]]

(* GetChainByID: the chain with its steps preloaded; the preload of Steps   *)
(* carries no ordering clause                                               *)
GetChainByID(id, order) ==
    [chains[id] EXCEPT !.steps = [i \in 1..Len(chains[id].steps) |->
                                     PreloadWebhook(chains[id].steps[order[i]])]]

(* gorm's Updates(map): the named columns of the row are overwritten *)
Updates(row, updates) ==
    [k \in DOMAIN row |-> IF k \in DOMAIN updates THEN updates[k] ELSE row[k]]

UpdateChainRunStatus_StampsEveryStatus(runID, status) ==
    [runs EXCEPT ![runID] = Updates(@, [status |-> status, completed_at |-> Some(now)])]

UpdateChainRunStatus(runID, status) ==
    LET updates == [status |-> status] @@
                   (IF status = ExecutionChainStatusCompleted \/ status = ExecutionChainStatusFailed
                        THEN [completed_at |-> Some(now)]
                        ELSE <<>>)
    IN  [runs EXCEPT ![runID] = Updates(@, updates)]

UpdateChainRunStep_EveryRunOfChain(runID, currentStep) ==
    [r \in DOMAIN runs |->
        IF runs[r].chain_id = runs[runID].chain_id
            THEN Updates(runs[r], [current_step |-> currentStep])
            ELSE runs[r]]

UpdateChainRunStep(runID, currentStep) ==
    [runs EXCEPT ![runID] = Updates(@, [current_step |-> currentStep])]

UpdateStepRun(stepRunID, updates) ==
    [stepRuns EXCEPT ![stepRunID] = Updates(@, updates)]

----------------------------------------------------------------------------
(* The persisted tables and the tasks right after start-up *)
InitStore ==
    /\ now = 0
    /\ storageFaults = 0
    /\ subscriptions = [w \in {"w1", "w2"} |->
                            [tenant_id |-> IF w = "w1" THEN "acme" ELSE "globex"]]
    /\ chains = <<>>
    /\ runs = <<>>
    /\ stepRuns = <<>>
    /\ tasks = <<>>
    /\ triggerLog = <<>>
    /\ events = <<>>
    /\ eventResults = <<>>
    /\ sends = <<>>
    /\ requests = <<>>
    /\ verifications = <<>>

Init ==
    /\ InitStore
    /\ call = NULL

Tick ==
    /\ now < MaxTime
    /\ now' = now + 1
    /\ UNCHANGED <<storageFaults, subscriptions, chains, runs, stepRuns, tasks, triggerLog>>
    /\ UNCHANGED restVars

----------------------------------------------------------------------------
(* CreateChain *)

(* The step row built from one step of the request, defaults applied *)
NewStep(stepReq, i) ==
    [step_order |-> i,
     webhook_id |-> stepReq.webhook_id,
     on_success_action |-> IF stepReq.on_success_action = ""
                               THEN DefaultOnSuccessAction
                               ELSE stepReq.on_success_action,
     on_failure_action |-> IF stepReq.on_failure_action = ""
                               THEN DefaultOnFailureAction
                               ELSE stepReq.on_failure_action,
     max_retries |-> IF stepReq.max_retries = 0
                         THEN DefaultMaxRetries
                         ELSE stepReq.max_retries,
     delay_seconds |-> stepReq.delay_seconds]

WebhooksValid_ExistenceOnly(req) ==
    \A i \in 1..Len(req.steps) :
        req.steps[i].webhook_id \in DOMAIN subscriptions

(* Every webhook of the request exists and belongs to the request's tenant *)
WebhooksValid(req) ==
    \A i \in 1..Len(req.steps) :
        /\ req.steps[i].webhook_id \in DOMAIN subscriptions
        /\ subscriptions[req.steps[i].webhook_id].tenant_id = req.tenant_id

CreateChain(req) ==
    /\ \E ok \in StoreOutcomes :
          /\ storageFaults' = Fault(ok)
          /\ IF ok /\ WebhooksValid(req)
                 THEN chains' = Append(chains,
                          [tenant_id |-> req.tenant_id,
                           trigger_event |-> req.trigger_event,
                           is_active |-> TRUE,
                           steps |-> [i \in 1..Len(req.steps) |-> NewStep(req.steps[i], i)]])
                 ELSE UNCHANGED chains
    /\ UNCHANGED <<now, subscriptions, runs, stepRuns, tasks, triggerLog>>
    /\ UNCHANGED restVars

----------------------------------------------------------------------------
(* ExecuteChain: creates the run row and starts the task that drives it *)

(* The run row ExecuteChain inserts for a chain it loaded *)
NewRun(chainID, chain) ==
    [chain_id |-> chainID,
     tenant_id |-> chain.tenant_id,
     status |-> ExecutionChainStatusRunning,
     current_step |-> 0,
     total_steps |-> Len(chain.steps),
     started_at |-> Some(now),
     completed_at |-> NULL,
     last_error |-> NULL]

NewTask_RequestContext(chain) ==
    [pc |-> "loop",
     ctx |-> "request",
     caller |-> "serving",
     steps |-> chain.steps,
     idx |-> 1,
     stepRunID |-> 0,
     attempt |-> 0,
     success |-> FALSE]

(* The goroutine ExecuteChain starts: executeChainSteps on the loaded chain *)
(* with context.Background(); caller is the state of the request that      *)
(* called ExecuteChain, which is still being served when the task starts   *)
NewTask(chain) ==
    [pc |-> "loop",
     ctx |-> "background",
     caller |-> "serving",
     steps |-> chain.steps,
     idx |-> 1,
     stepRunID |-> 0,
     attempt |-> 0,
     success |-> FALSE]

(* The context the task runs with is done: only the context of a request   *)
(* ends, when the request has been answered or its client went away        *)
ContextDone(t) == t.ctx = "request" /\ t.caller = "done"

ExecuteChain_IgnoresActive(chainID) ==
    /\ \/ /\ chainID \in DOMAIN chains
          /\ \E ok \in StoreOutcomes, order \in RowOrders(Len(chains[chainID].steps)) :
                LET chain == GetChainByID(chainID, order) IN
                /\ storageFaults' = Fault(ok)
                /\ IF ok
                       THEN /\ runs' = Append(runs, NewRun(chainID, chain))
                            /\ tasks' = Append(tasks, NewTask(chain))
                       ELSE UNCHANGED <<runs, tasks>>
       \/ /\ chainID \notin DOMAIN chains
          /\ UNCHANGED <<storageFaults, runs, tasks>>
    /\ UNCHANGED <<now, subscriptions, chains, stepRuns, triggerLog>>
    /\ UNCHANGED restVars

ExecuteChain(chainID) ==
    /\ \/ /\ chainID \in DOMAIN chains
          /\ \E ok \in StoreOutcomes, order \in RowOrders(Len(chains[chainID].steps)) :
                LET chain == GetChainByID(chainID, order) IN
                /\ storageFaults' = Fault(ok)
                /\ IF ok /\ chain.is_active
                       THEN /\ runs' = Append(runs, NewRun(chainID, chain))
                            /\ tasks' = Append(tasks, NewTask(chain))
                       ELSE UNCHANGED <<runs, tasks>>
       \/ /\ chainID \notin DOMAIN chains
          /\ UNCHANGED <<storageFaults, runs, tasks>>
    /\ UNCHANGED <<now, subscriptions, chains, stepRuns, triggerLog>>
    /\ UNCHANGED restVars

(* The handler has answered the request that started run runID (202 with   *)
(* the run id), or the client went away: the request's context is done     *)
ExecuteChain_return(runID) ==
    /\ tasks[runID].caller = "serving"
    /\ tasks' = [tasks EXCEPT ![runID].caller = "done"]
    /\ UNCHANGED <<now, storageFaults, subscriptions, chains, runs, stepRuns, triggerLog>>
    /\ UNCHANGED restVars

----------------------------------------------------------------------------
(* executeChainSteps and executeStep, the task of run runID *)

(* Loop head: the next step of the snapshot; current_step is persisted     *)
(* (a failure is logged only); a step with a delay is slept on next        *)
executeChainSteps_step(runID) ==
    LET t == tasks[runID] IN
    /\ t.pc = "loop"
    /\ t.idx <= Len(t.steps)
    /\ \E ok \in StoreOutcomes :
          /\ storageFaults' = Fault(ok)
          /\ runs' = IF ok THEN UpdateChainRunStep(runID, t.steps[t.idx].step_order) ELSE runs
    /\ tasks' = [tasks EXCEPT ![runID].pc =
                     IF t.steps[t.idx].delay_seconds > 0 THEN "delay" ELSE "executeStep"]
    /\ UNCHANGED <<now, subscriptions, chains, stepRuns, triggerLog>>
    /\ UNCHANGED restVars

(* time.Sleep of the step's delay returns: the delay has passed since the  *)
(* task went to sleep                                                       *)
executeChainSteps_delay(runID) ==
    LET t == tasks[runID] IN
    /\ t.pc = "delay"
    /\ now' = now + t.steps[t.idx].delay_seconds
    /\ tasks' = [tasks EXCEPT ![runID].pc = "executeStep"]
    /\ UNCHANGED <<storageFaults, subscriptions, chains, runs, stepRuns, triggerLog>>
    /\ UNCHANGED restVars

(* executeStep up to its retry loop: the step run row is created Pending;  *)
(* if the insert fails, or max_retries < 0 leaves the loop no iteration,   *)
(* executeStep returns false                                                *)
executeStep_create(runID) ==
    LET t == tasks[runID]
        step == t.steps[t.idx]
    IN
    /\ t.pc = "executeStep"
    /\ \E ok \in StoreOutcomes :
          /\ storageFaults' = Fault(ok)
          /\ IF ok
                 THEN /\ stepRuns' = Append(stepRuns,
                             [run_id |-> runID,
                              step_order |-> step.step_order,
                              status |-> WebhookStatusPending,
                              response_code |-> NULL,
                              attempt_count |-> 0,
                              last_error |-> NULL,
                              started_at |-> Some(now),
                              completed_at |-> NULL])
                      /\ tasks' = [tasks EXCEPT ![runID] =
                             [@ EXCEPT !.stepRunID = Len(stepRuns) + 1,
                                       !.attempt = 0,
                                       !.success = FALSE,
                                       !.pc = IF 0 <= step.max_retries THEN "attempt" ELSE "result"]]
                 ELSE /\ UNCHANGED stepRuns
                      /\ tasks' = [tasks EXCEPT ![runID] =
                             [@ EXCEPT !.success = FALSE, !.pc = "result"]]
    /\ UNCHANGED <<now, subscriptions, chains, runs, triggerLog>>
    /\ UNCHANGED restVars

(* sendStepWebhook: (success, responseCode, err) for what the HTTP call ended in *)
sendStepWebhook(outcome) ==
    IF outcome.transport_error
        THEN [success |-> FALSE, responseCode |-> NULL, err |-> Some("failed to send request")]
        ELSE [success |-> outcome.status >= 200 /\ outcome.status < 300,
              responseCode |-> Some(outcome.status),
              err |-> NULL]

(* The map executeStep hands to UpdateStepRun after one attempt *)
StepRunUpdates(attempt, maxRetries, res) ==
    [attempt_count |-> attempt + 1]
    @@ (IF res.responseCode # NULL THEN [response_code |-> res.responseCode] ELSE <<>>)
    @@ (IF res.success
            THEN [status |-> WebhookStatusSent, completed_at |-> Some(now)]
            ELSE (IF res.err # NULL THEN [last_error |-> res.err] ELSE <<>>)
                 @@ (IF attempt = maxRetries
                         THEN [status |-> WebhookStatusFailed, completed_at |-> Some(now)]
                         ELSE <<>>))

(* What the HTTP call of a step can end in: with no subscription row        *)
(* preloaded the request goes to the empty URL, which the client refuses    *)
SendOutcomes(step) ==
    IF step.webhook = NULL
        THEN {o \in HttpOutcomes : o.transport_error}
        ELSE HttpOutcomes

(* http.NewRequestWithContext(ctx, ...): a call under a context that is    *)
(* done ends in an error of the client                                     *)
SendOutcomesWithContext(t, step) ==
    IF ContextDone(t)
        THEN {o \in HttpOutcomes : o.transport_error}
        ELSE SendOutcomes(step)

(* One iteration of executeStep's retry loop: backoff sleep, the HTTP call, *)
(* the update of the step run row (a failure is logged only), and the       *)
(* return or the next iteration                                             *)
executeStep_attempt(runID) ==
    LET t == tasks[runID]
        step == t.steps[t.idx]
    IN
    /\ t.pc = "attempt"
    /\ \E outcome \in SendOutcomesWithContext(t, step), ok \in StoreOutcomes :
          LET res == sendStepWebhook(outcome) IN
          /\ storageFaults' = Fault(ok)
          /\ stepRuns' = IF ok
                             THEN UpdateStepRun(t.stepRunID,
                                      StepRunUpdates(t.attempt, step.max_retries, res))
                             ELSE stepRuns
          /\ tasks' = [tasks EXCEPT ![runID] =
                 IF res.success
                     THEN [@ EXCEPT !.success = TRUE, !.pc = "result"]
                     ELSE IF t.attempt + 1 <= step.max_retries
                              THEN [@ EXCEPT !.attempt = t.attempt + 1]
                              ELSE [@ EXCEPT !.success = FALSE, !.pc = "result"]]
    /\ UNCHANGED <<now, subscriptions, chains, runs, triggerLog>>
    /\ UNCHANGED restVars

(* The run row after the task called UpdateChainRunStatus, whose error the *)
(* task ignores                                                             *)
SetRunStatus(runID, status, ok) ==
    /\ storageFaults' = Fault(ok)
    /\ runs' = IF ok THEN UpdateChainRunStatus(runID, status) ELSE runs

(* What the loop body of executeChainSteps does with a step's result: the  *)
(* status it marks the run with (if any) and how it leaves the iteration    *)
HandleStepResult_BreakOnFailure(step, success) ==
    IF success
        THEN IF step.on_success_action = "stop"
                 THEN [mark |-> NULL, flow |-> "break"]
                 ELSE IF step.on_success_action = "pause"
                          THEN [mark |-> Some(ExecutionChainStatusPaused), flow |-> "return"]
                          ELSE [mark |-> NULL, flow |-> "continue"]
        ELSE IF step.on_failure_action = "stop"
                 THEN [mark |-> Some(ExecutionChainStatusFailed), flow |-> "break"]
                 ELSE [mark |-> NULL, flow |-> "continue"]

HandleStepResult(step, success) ==
    IF success
        THEN IF step.on_success_action = "stop"
                 THEN [mark |-> NULL, flow |-> "break"]
                 ELSE IF step.on_success_action = "pause"
                          THEN [mark |-> Some(ExecutionChainStatusPaused), flow |-> "return"]
                          ELSE [mark |-> NULL, flow |-> "continue"]
        ELSE IF step.on_failure_action = "stop"
                 THEN [mark |-> Some(ExecutionChainStatusFailed), flow |-> "return"]
                 ELSE [mark |-> NULL, flow |-> "continue"]

executeChainSteps_result_RetryRepeatsStep(runID) ==
    LET t == tasks[runID]
        h == HandleStepResult(t.steps[t.idx], t.success)
    IN
    /\ t.pc = "result"
    /\ IF h.mark # NULL
           THEN \E ok \in StoreOutcomes : SetRunStatus(runID, h.mark[1], ok)
           ELSE UNCHANGED <<runs, storageFaults>>
    /\ tasks' = [tasks EXCEPT ![runID] =
           IF ~t.success /\ t.steps[t.idx].on_failure_action = "retry"
               THEN [@ EXCEPT !.pc = "executeStep"]
               ELSE IF h.flow = "continue"
                        THEN [@ EXCEPT !.idx = t.idx + 1, !.pc = "loop"]
                        ELSE IF h.flow = "break"
                                 THEN [@ EXCEPT !.pc = "break"]
                                 ELSE [@ EXCEPT !.pc = "done"]]
    /\ UNCHANGED <<now, subscriptions, chains, stepRuns, triggerLog>>
    /\ UNCHANGED restVars

(* The step's result handled by the loop body of executeChainSteps *)
executeChainSteps_result(runID) ==
    LET t == tasks[runID]
        h == HandleStepResult(t.steps[t.idx], t.success)
    IN
    /\ t.pc = "result"
    /\ IF h.mark # NULL
           THEN \E ok \in StoreOutcomes : SetRunStatus(runID, h.mark[1], ok)
           ELSE UNCHANGED <<runs, storageFaults>>
    /\ tasks' = [tasks EXCEPT ![runID] =
           IF h.flow = "continue"
               THEN [@ EXCEPT !.idx = t.idx + 1, !.pc = "loop"]
               ELSE IF h.flow = "break"
                        THEN [@ EXCEPT !.pc = "break"]
                        ELSE [@ EXCEPT !.pc = "done"]]
    /\ UNCHANGED <<now, subscriptions, chains, stepRuns, triggerLog>>
    /\ UNCHANGED restVars

executeChainSteps_completed_LeavesRunning(runID) ==
    LET t == tasks[runID] IN
    /\ \/ t.pc = "break"
       \/ t.pc = "loop" /\ t.idx > Len(t.steps)
    /\ tasks' = [tasks EXCEPT ![runID].pc = "done"]
    /\ UNCHANGED <<now, storageFaults, subscriptions, chains, runs, stepRuns, triggerLog>>
    /\ UNCHANGED restVars

(* After the loop (every step done, or break): the run is marked completed *)
executeChainSteps_completed(runID) ==
    LET t == tasks[runID] IN
    /\ \/ t.pc = "break"
       \/ t.pc = "loop" /\ t.idx > Len(t.steps)
    /\ \E ok \in StoreOutcomes :
          SetRunStatus(runID, ExecutionChainStatusCompleted, ok)
    /\ tasks' = [tasks EXCEPT ![runID].pc = "done"]
    /\ UNCHANGED <<now, subscriptions, chains, stepRuns, triggerLog>>
    /\ UNCHANGED restVars

----------------------------------------------------------------------------
Next ==
    \/ Tick
    \/ Len(chains) < MaxChains /\ \E req \in CreateExecutionChainRequest : CreateChain(req)
    \/ Len(runs) < MaxRuns /\ \E chainID \in 1..MaxChains : ExecuteChain(chainID)
    \/ \E runID \in DOMAIN tasks : executeChainSteps_step(runID)
    \/ \E runID \in DOMAIN tasks : executeStep_create(runID)
    \/ \E runID \in DOMAIN tasks : executeStep_attempt(runID)
    \/ \E runID \in DOMAIN tasks : executeChainSteps_result(runID)
    \/ \E runID \in DOMAIN tasks : executeChainSteps_completed(runID)

Spec == Init /\ [][Next]_vars

----------------------------------------------------------------------------
(* Chains of several tenants and events, the event trigger, and the         *)
(* administrative operations on chains and subscriptions                    *)

MaxChainsOps == 2
MaxRunsOps == 3
MaxTriggers == 2

OpsTenants == {"acme", "globex"}
OpsTriggerEvents == {"order.placed", "order.paid"}

(* Steps with the default actions and one retry *)
OpsSteps ==
    [webhook_id : WebhookIds,
     on_success_action : {""},
     on_failure_action : {""},
     max_retries : {1},
     delay_seconds : {0}]

(* One-step chain requests of either tenant and event *)
OpsRequests ==
    [tenant_id : OpsTenants,
     trigger_event : OpsTriggerEvents,
     steps : [1..1 -> OpsSteps]]

(* Chain requests of either tenant over existing, foreign and missing       *)
(* subscriptions                                                            *)
RegistryRequests ==
    [tenant_id : OpsTenants,
     trigger_event : TriggerEvents,
     steps : SeqsUpTo(OpsSteps, MaxSteps)]

(* UpdateChain with is_active in the request: the flag is overwritten *)
UpdateChain(chainID, isActive) ==
    /\ chainID \in DOMAIN chains
    /\ \E ok \in StoreOutcomes :
          /\ storageFaults' = Fault(ok)
          /\ chains' = IF ok
                           THEN [chains EXCEPT ![chainID] = Updates(@, [is_active |-> isActive])]
                           ELSE chains
    /\ UNCHANGED <<now, subscriptions, runs, stepRuns, tasks, triggerLog>>
    /\ UNCHANGED restVars

(* DeleteSubscription: the row is removed; no step row is touched. (A store *)
(* that enforces the reference from step rows refuses the delete, which is  *)
(* no step of the model.)                                                   *)
DeleteSubscription(id) ==
    /\ id \in DOMAIN subscriptions
    /\ \E ok \in StoreOutcomes :
          /\ storageFaults' = Fault(ok)
          /\ subscriptions' = IF ok
                                  THEN [w \in DOMAIN subscriptions \ {id} |-> subscriptions[w]]
                                  ELSE subscriptions
    /\ UNCHANGED <<now, chains, runs, stepRuns, tasks, triggerLog>>
    /\ UNCHANGED restVars

(* UpdateSubscription: the row is saved as handed in, here with another     *)
(* tenant                                                                   *)
UpdateSubscription(id, tenantID) ==
    /\ id \in DOMAIN subscriptions
    /\ subscriptions[id].tenant_id # tenantID
    /\ \E ok \in StoreOutcomes :
          /\ storageFaults' = Fault(ok)
          /\ subscriptions' = IF ok
                                  THEN [subscriptions EXCEPT ![id] = Updates(@, [tenant_id |-> tenantID])]
                                  ELSE subscriptions
    /\ UNCHANGED <<now, chains, runs, stepRuns, tasks, triggerLog>>
    /\ UNCHANGED restVars

(* The rows GetChainsByTriggerEvent selects *)
ChainsByTriggerEvent(tenantID, event) ==
    {c \in DOMAIN chains : /\ chains[c].tenant_id = tenantID
                           /\ chains[c].trigger_event = event
                           /\ chains[c].is_active}

(* GetChainsByTriggerEvent hands "steps.step_order ASC" to Preload as a     *)
(* condition of the query that loads the steps of the selected chains; the  *)
(* query is issued only if a chain was selected, and the text is no         *)
(* condition, so the store may refuse the statement                         *)
PreloadConditionOutcomes(found) == IF found = {} THEN {TRUE} ELSE {TRUE, FALSE}

(* The ways a set of rows can come back from a query without ORDER BY *)
Enumerations(S) ==
    {q \in [1..Cardinality(S) -> S] : \A i, j \in 1..Cardinality(S) : q[i] = q[j] => i = j}

(* The loop of ExecuteChainByEvent: ExecuteChain for each chain of ids in   *)
(* turn, its error logged only. ok[c] is whether CreateChainRun succeeds    *)
(* for chain c, order[c] the order its step rows are loaded in.             *)
RECURSIVE ExecuteChains(_, _, _, _, _)
ExecuteChains(ids, ok, order, rs, ts) ==
    IF ids = <<>>
        THEN [runs |-> rs, tasks |-> ts]
        ELSE LET chainID == Head(ids)
                 chain == GetChainByID(chainID, order[chainID])
             IN  IF ok[chainID] /\ chain.is_active
                     THEN ExecuteChains(Tail(ids), ok, order,
                                        Append(rs, NewRun(chainID, chain)),
                                        Append(ts, NewTask(chain)))
                     ELSE ExecuteChains(Tail(ids), ok, order, rs, ts)

(* ExecuteChainByEvent called when faults persistence calls have failed:    *)
(* returns an error if the query fails, and nil once every selected chain   *)
(* was handed to ExecuteChain                                               *)
ExecuteChainByEventAfter(tenantID, event, faults) ==
    LET found == ChainsByTriggerEvent(tenantID, event) IN
    /\ \/ \E queryOk \in BOOLEAN, accepted \in PreloadConditionOutcomes(found) :
             /\ ~(queryOk /\ accepted)
             /\ queryOk \/ faults < MaxStorageFaults
             /\ storageFaults' = IF queryOk THEN faults ELSE faults + 1
             /\ triggerLog' = Append(triggerLog,
                                     [tenant_id |-> tenantID, event |-> event, err |-> TRUE])
             /\ UNCHANGED <<runs, tasks>>
       \/ \E ids \in Enumerations(found),
              ok \in [found -> BOOLEAN],
              order \in [found -> UNION {RowOrders(n) : n \in 1..MaxSteps}] :
             LET failed == Cardinality({c \in found : ~ok[c]})
                 started == ExecuteChains(ids, ok, order, runs, tasks)
             IN  /\ \A c \in found : order[c] \in RowOrders(Len(chains[c].steps))
                 /\ faults + failed <= MaxStorageFaults
                 /\ storageFaults' = faults + failed
                 /\ runs' = started.runs
                 /\ tasks' = started.tasks
                 /\ triggerLog' = Append(triggerLog,
                                         [tenant_id |-> tenantID, event |-> event, err |-> FALSE])
    /\ UNCHANGED <<now, subscriptions, chains, stepRuns>>

ExecuteChainByEvent(tenantID, event) ==
    ExecuteChainByEventAfter(tenantID, event, storageFaults)

(* The chain engine with the administration of subscriptions *)
NextRegistry ==
    \/ Len(chains) < MaxChains /\ \E req \in RegistryRequests : CreateChain(req)
    \/ Len(runs) < MaxRuns /\ \E chainID \in 1..MaxChains : ExecuteChain(chainID)
    \/ \E id \in WebhookIds : DeleteSubscription(id)
    \/ \E id \in WebhookIds, tenantID \in OpsTenants : UpdateSubscription(id, tenantID)
    \/ \E runID \in DOMAIN tasks : executeChainSteps_step(runID)
    \/ \E runID \in DOMAIN tasks : executeStep_create(runID)
    \/ \E runID \in DOMAIN tasks : executeStep_attempt(runID)
    \/ \E runID \in DOMAIN tasks : executeChainSteps_result(runID)
    \/ \E runID \in DOMAIN tasks : executeChainSteps_completed(runID)

SpecRegistry == Init /\ [][NextRegistry]_vars

(* The handlers that create, switch and start chains, for chains of         *)
(* several tenants and events. The tasks they start are recorded in tasks;  *)
(* their steps are the subject of Spec and SpecRegistry.                    *)
NextOps ==
    \/ Len(chains) < MaxChainsOps /\ \E req \in OpsRequests : CreateChain(req)
    \/ Len(runs) < MaxRunsOps /\ \E chainID \in 1..MaxChainsOps : ExecuteChain(chainID)
    \/ /\ Len(triggerLog) < MaxTriggers
       /\ \E tenantID \in OpsTenants, event \in OpsTriggerEvents :
              /\ Len(runs) + Cardinality(ChainsByTriggerEvent(tenantID, event)) <= MaxRunsOps
              /\ ExecuteChainByEvent(tenantID, event)
              /\ UNCHANGED restVars
    \/ \E chainID \in 1..MaxChainsOps, isActive \in BOOLEAN : UpdateChain(chainID, isActive)

SpecOps == Init /\ [][NextOps]_vars

----------------------------------------------------------------------------
(* Event fan-out: SendEvent delivers an event to the active subscriptions   *)
(* of its tenant and event, records it, and triggers the chains             *)

MaxEvents == 2

DefaultSubscriptionMaxRetries == 3

(* The registry the dispatches run against: two active subscriptions of     *)
(* acme for order.placed, an inactive one, and one of another tenant        *)
FanoutSubscriptions ==
    [w \in {"w1", "w2", "w3", "w4"} |->
        [tenant_id |-> IF w = "w4" THEN "globex" ELSE "acme",
         subscribed_event |-> "order.placed",
         is_active |-> w # "w3",
         max_retries |-> IF w = "w2" THEN 1 ELSE DefaultSubscriptionMaxRetries]]

SendEventRequest == [tenant_id : OpsTenants, event : OpsTriggerEvents]

Answer(status) == [transport_error |-> FALSE, status |-> status]
NoAnswer == [transport_error |-> TRUE, status |-> 0]

(* What an endpoint answers to the requests it receives, one after the      *)
(* other; the last script answers 500 to more requests than any             *)
(* subscription allows retries                                              *)
EndpointScripts ==
    {<<Answer(200)>>,
     <<Answer(400)>>,
     <<Answer(404)>>,
     <<NoAnswer>>,
     <<Answer(500), Answer(500), Answer(200)>>,
     [i \in 1..(DefaultSubscriptionMaxRetries + 1) |-> Answer(500)]}

(* The script answers 500 to every request *)
AlwaysServerError(script) == \A i \in DOMAIN script : script[i] = Answer(500)

(* The rows GetActiveSubscriptionsByTenantAndEvent selects *)
ActiveSubscriptionsByTenantAndEvent_AnyTenant(tenantID, event) ==
    {w \in DOMAIN subscriptions : /\ subscriptions[w].subscribed_event = event
                                  /\ subscriptions[w].is_active}

ActiveSubscriptionsByTenantAndEvent(tenantID, event) ==
    {w \in DOMAIN subscriptions : /\ subscriptions[w].tenant_id = tenantID
                                  /\ subscriptions[w].subscribed_event = event
                                  /\ subscriptions[w].is_active}

sendWebhookToSubscription_RetriesEveryFailure(id, script) ==
    LET outcome == Head(script)
        success == outcome.status >= 200 /\ outcome.status < 300
        attempts == IF success THEN 1 ELSE subscriptions[id].max_retries + 1
    IN  IF outcome.transport_error
            THEN [webhook_id |-> id,
                  success |-> FALSE,
                  response_code |-> NULL,
                  error |-> Some("failed to send request"),
                  attempt_count |-> attempts]
            ELSE [webhook_id |-> id,
                  success |-> success,
                  response_code |-> Some(outcome.status),
                  error |-> IF success THEN NULL ELSE Some("webhook returned status"),
                  attempt_count |-> attempts]

(* sendWebhookToSubscription: one request to the subscription's endpoint,   *)
(* and the delivery result made of what came back                           *)
sendWebhookToSubscription(id, script) ==
    LET outcome == Head(script)
        success == outcome.status >= 200 /\ outcome.status < 300
    IN  IF outcome.transport_error
            THEN [webhook_id |-> id,
                  success |-> FALSE,
                  response_code |-> NULL,
                  error |-> Some("failed to send request"),
                  attempt_count |-> 1]
            ELSE [webhook_id |-> id,
                  success |-> success,
                  response_code |-> Some(outcome.status),
                  error |-> IF success THEN NULL ELSE Some("webhook returned status"),
                  attempt_count |-> 1]

CountDeliveries_SkipsTransportErrors(webhooks) ==
    [total_sent |-> Cardinality({i \in DOMAIN webhooks : webhooks[i].success}),
     total_failed |-> Cardinality({i \in DOMAIN webhooks :
                                     ~webhooks[i].success /\ webhooks[i].response_code # NULL})]

(* TotalSent and TotalFailed as the delivery loop of SendEvent counts them *)
CountDeliveries(webhooks) ==
    [total_sent |-> Cardinality({i \in DOMAIN webhooks : webhooks[i].success}),
     total_failed |-> Cardinality({i \in DOMAIN webhooks : ~webhooks[i].success})]

(* The event row SendEvent builds before the deliveries *)
NewEvent(req) ==
    [tenant_id |-> req.tenant_id,
     event_name |-> req.event,
     status |-> WebhookStatusPending,
     attempts |-> 0,
     last_error |-> NULL,
     sent_at |-> NULL]

AllDeliveriesFailed(n) == [message |-> "all webhook deliveries failed", count |-> n]

(* The event row as SendEvent sets it after the deliveries *)
ProcessedEvent(event, counts, n) ==
    LET updates ==
            [attempts |-> 1] @@
            (IF counts.total_sent > 0 /\ counts.total_failed = 0
                 THEN [status |-> WebhookStatusSent, sent_at |-> Some(now)]
                 ELSE IF counts.total_failed > 0
                          THEN [status |-> WebhookStatusFailed] @@
                               (IF counts.total_failed = n
                                    THEN [last_error |-> Some(AllDeliveriesFailed(counts.total_failed))]
                                    ELSE <<>>)
                          ELSE <<>>)
    IN  Updates(event, updates)

SendEventReturn_FailsWithChains(result, chainErr) ==
    [err |-> chainErr, result |-> IF chainErr THEN NULL ELSE Some(result)]

(* What SendEvent returns once the subscription query has succeeded: the    *)
(* result and no error; the error of ExecuteChainByEvent is logged          *)
SendEventReturn(result, chainErr) ==
    [err |-> FALSE, result |-> Some(result)]

(* SendEvent: the subscription query (its failure is the only error the     *)
(* call returns), the event row created pending, one delivery per           *)
(* subscription, the event row saved with its outcome, the chains of the    *)
(* event triggered. Failures of CreateEvent, UpdateEvent and                *)
(* ExecuteChainByEvent are logged or ignored. UpdateEvent saves the whole   *)
(* row, so it also writes a row CreateEvent failed to insert.               *)
SendEvent(req) ==
    LET found == ActiveSubscriptionsByTenantAndEvent(req.tenant_id, req.event)
        eventID == Len(eventResults) + 1
    IN
    /\ \/ /\ storageFaults < MaxStorageFaults
          /\ storageFaults' = storageFaults + 1
          /\ eventResults' = Append(eventResults,
                                    [request |-> req, err |-> TRUE, result |-> NULL,
                                     found |-> NULL, endpoints |-> <<>>, chain_err |-> FALSE,
                                     created |-> FALSE, updated |-> FALSE])
          /\ UNCHANGED <<now, subscriptions, chains, runs, stepRuns, tasks, triggerLog, events>>
       \/ \E subs \in Enumerations(found),
              createOk \in BOOLEAN, updateOk \in BOOLEAN,
              endpoints \in [found -> EndpointScripts] :
             LET faults == storageFaults + (IF createOk THEN 0 ELSE 1)
                                         + (IF updateOk THEN 0 ELSE 1)
                 webhooks == [i \in 1..Len(subs) |->
                                 sendWebhookToSubscription(subs[i], endpoints[subs[i]])]
                 counts == CountDeliveries(webhooks)
                 event == NewEvent(req)
             IN  /\ faults <= MaxStorageFaults
                 /\ events' = IF updateOk
                                  THEN events @@ (eventID :> ProcessedEvent(event, counts, Len(subs)))
                                  ELSE IF createOk
                                           THEN events @@ (eventID :> event)
                                           ELSE events
                 /\ ExecuteChainByEventAfter(req.tenant_id, req.event, faults)
                 /\ LET chainErr == triggerLog'[Len(triggerLog')].err
                        result == [event_id |-> eventID,
                                   total_sent |-> counts.total_sent,
                                   total_failed |-> counts.total_failed,
                                   webhooks |-> webhooks]
                    IN  eventResults' = Append(eventResults,
                            [request |-> req, found |-> Some(subs), endpoints |-> endpoints,
                             chain_err |-> chainErr,
                             created |-> createOk, updated |-> updateOk]
                            @@ SendEventReturn(result, chainErr))
    /\ UNCHANGED <<call, sends, requests, verifications>>

InitFanout ==
    /\ now = 0
    /\ storageFaults = 0
    /\ subscriptions = FanoutSubscriptions
    /\ chains = <<>>
    /\ runs = <<>>
    /\ stepRuns = <<>>
    /\ tasks = <<>>
    /\ triggerLog = <<>>
    /\ events = <<>>
    /\ eventResults = <<>>
    /\ sends = <<>>
    /\ requests = <<>>
    /\ verifications = <<>>
    /\ call = NULL

NextFanout ==
    \/ Tick
    \/ Len(eventResults) < MaxEvents /\ \E req \in SendEventRequest : SendEvent(req)

SpecFanout == InitFanout /\ [][NextFanout]_vars

----------------------------------------------------------------------------
(* SendEvent step by step: the calls of several callers run side by side,   *)
(* each one stopping at its store calls and at the request it is waiting    *)
(* on. sends[c] is the call that works on event c.                          *)

MaxSends == 2

(* What the endpoints answer in these runs: 200, 400, nothing, 500 *)
DispatchScripts ==
    {script \in EndpointScripts : Len(script) = 1 \/ AlwaysServerError(script)} \ {<<Answer(404)>>}

(* The call has dealt with fewer subscriptions than the query returned *)
InDeliveryLoop(c) ==
    /\ sends[c].pc = "deliver"
    /\ Len(sends[c].webhooks) < Len(sends[c].subs)

(* The query and CreateEvent *)
SendEvent_query(req) ==
    LET found == ActiveSubscriptionsByTenantAndEvent(req.tenant_id, req.event)
        c == Len(sends) + 1
    IN
    /\ \/ /\ storageFaults < MaxStorageFaults
          /\ storageFaults' = storageFaults + 1
          /\ sends' = Append(sends, [request |-> req, found |-> NULL, subs |-> <<>>,
                                      endpoints |-> <<>>, webhooks |-> <<>>,
                                      sending |-> FALSE, pc |-> "done"])
          /\ eventResults' = Append(eventResults,
                                    [request |-> req, err |-> TRUE, result |-> NULL,
                                     found |-> NULL, endpoints |-> <<>>, chain_err |-> FALSE])
          /\ UNCHANGED events
       \/ \E subs \in Enumerations(found), createOk \in StoreOutcomes :
             /\ storageFaults' = Fault(createOk)
             /\ events' = IF createOk THEN events @@ (c :> NewEvent(req)) ELSE events
             /\ sends' = Append(sends, [request |-> req, found |-> Some(subs), subs |-> subs,
                                         endpoints |-> <<>>, webhooks |-> <<>>,
                                         sending |-> FALSE, pc |-> "deliver"])
             /\ UNCHANGED eventResults
    /\ UNCHANGED <<now, subscriptions, chains, runs, stepRuns, tasks, triggerLog,
                   call, requests, verifications>>

(* The delivery loop reaches the next subscription: its request is sent *)
sendWebhookToSubscription_send(c) ==
    /\ InDeliveryLoop(c)
    /\ ~sends[c].sending
    /\ sends' = [sends EXCEPT ![c].sending = TRUE]
    /\ requests' = Append(requests,
                          [event_id |-> c,
                           webhook_id |-> sends[c].subs[Len(sends[c].webhooks) + 1]])
    /\ UNCHANGED <<now, storageFaults, subscriptions, chains, runs, stepRuns, tasks,
                   triggerLog, events, eventResults, call, verifications>>

(* The endpoint answers, or the client gives up: the result is stored in    *)
(* the slot of the subscription and counted                                 *)
sendWebhookToSubscription_return(c, script) ==
    /\ InDeliveryLoop(c)
    /\ sends[c].sending
    /\ LET id == sends[c].subs[Len(sends[c].webhooks) + 1]
       IN  sends' = [sends EXCEPT
                        ![c].sending = FALSE,
                        ![c].endpoints = @ @@ (id :> script),
                        ![c].webhooks = Append(@, sendWebhookToSubscription(id, script))]
    /\ UNCHANGED <<now, storageFaults, subscriptions, chains, runs, stepRuns, tasks,
                   triggerLog, events, eventResults, call, requests, verifications>>

(* The loop is over *)
DeliveriesSettled_AfterFirst(c) ==
    Len(sends[c].webhooks) >= 1 \/ Len(sends[c].subs) = 0

DeliveriesSettled(c) ==
    /\ Len(sends[c].webhooks) = Len(sends[c].subs)
    /\ ~sends[c].sending

(* After the loop the event row is given its outcome and saved *)
SendEvent_update(c) ==
    /\ sends[c].pc = "deliver"
    /\ DeliveriesSettled(c)
    /\ \E updateOk \in StoreOutcomes :
          /\ storageFaults' = Fault(updateOk)
          /\ events' = IF updateOk
                           THEN [k \in DOMAIN events \cup {c} |->
                                    IF k = c
                                        THEN ProcessedEvent(NewEvent(sends[c].request),
                                                            CountDeliveries(sends[c].webhooks),
                                                            Len(sends[c].subs))
                                        ELSE events[k]]
                           ELSE events
    /\ sends' = [sends EXCEPT ![c].pc = "trigger"]
    /\ UNCHANGED <<now, subscriptions, chains, runs, stepRuns, tasks, triggerLog,
                   eventResults, call, requests, verifications>>

SendEvent_trigger_SkipsWithoutSubscriptions(c) ==
    /\ sends[c].pc = "trigger"
    /\ IF sends[c].subs = <<>>
          THEN UNCHANGED <<now, storageFaults, subscriptions, chains, runs, stepRuns, tasks,
                           triggerLog>>
          ELSE ExecuteChainByEvent(sends[c].request.tenant_id, sends[c].request.event)
    /\ sends' = [sends EXCEPT ![c].pc = "done"]
    /\ LET chainErr == triggerLog' # triggerLog /\ triggerLog'[Len(triggerLog')].err
           counts == CountDeliveries(sends[c].webhooks)
           result == [event_id |-> c,
                      total_sent |-> counts.total_sent,
                      total_failed |-> counts.total_failed,
                      webhooks |-> sends[c].webhooks]
       IN  eventResults' = Append(eventResults,
               [request |-> sends[c].request, found |-> sends[c].found,
                endpoints |-> sends[c].endpoints, chain_err |-> chainErr]
               @@ SendEventReturn(result, chainErr))
    /\ UNCHANGED <<events, call, requests, verifications>>

(* The chains of the event are triggered and the result is returned *)
SendEvent_trigger(c) ==
    /\ sends[c].pc = "trigger"
    /\ ExecuteChainByEvent(sends[c].request.tenant_id, sends[c].request.event)
    /\ sends' = [sends EXCEPT ![c].pc = "done"]
    /\ LET chainErr == triggerLog'[Len(triggerLog')].err
           counts == CountDeliveries(sends[c].webhooks)
           result == [event_id |-> c,
                      total_sent |-> counts.total_sent,
                      total_failed |-> counts.total_failed,
                      webhooks |-> sends[c].webhooks]
       IN  eventResults' = Append(eventResults,
               [request |-> sends[c].request, found |-> sends[c].found,
                endpoints |-> sends[c].endpoints, chain_err |-> chainErr]
               @@ SendEventReturn(result, chainErr))
    /\ UNCHANGED <<events, call, requests, verifications>>

NextDispatch ==
    \/ Len(sends) < MaxSends /\ \E req \in SendEventRequest : SendEvent_query(req)
    \/ \E c \in DOMAIN sends : sendWebhookToSubscription_send(c)
    \/ \E c \in DOMAIN sends, script \in DispatchScripts :
           sendWebhookToSubscription_return(c, script)
    \/ \E c \in DOMAIN sends : SendEvent_update(c)
    \/ \E c \in DOMAIN sends : SendEvent_trigger(c)

SpecDispatch == InitFanout /\ [][NextDispatch]_vars

MaxSendsTrigger == 1

(* The chains an event can start: one step, sent to a subscription of acme *)
TriggeredChainRequests ==
    {req \in OpsRequests : req.tenant_id = "acme" /\ req.steps[1].webhook_id = "w1"}

(* SendEvent with the chain engine at work on the runs the events start *)
NextTrigger ==
    \/ Tick
    \/ Len(chains) < MaxChains /\ \E req \in TriggeredChainRequests : CreateChain(req)
    \/ Len(sends) < MaxSendsTrigger /\ \E req \in SendEventRequest : SendEvent_query(req)
    \/ \E c \in DOMAIN sends : sendWebhookToSubscription_send(c)
    \/ \E c \in DOMAIN sends, script \in DispatchScripts :
           sendWebhookToSubscription_return(c, script)
    \/ \E c \in DOMAIN sends : SendEvent_update(c)
    \/ \E c \in DOMAIN sends : SendEvent_trigger(c)
    \/ \E runID \in DOMAIN tasks : executeChainSteps_step(runID)
    \/ \E runID \in DOMAIN tasks : executeStep_create(runID)
    \/ \E runID \in DOMAIN tasks : executeStep_attempt(runID)
    \/ \E runID \in DOMAIN tasks : executeChainSteps_result(runID)
    \/ \E runID \in DOMAIN tasks : executeChainSteps_completed(runID)

SpecTrigger == InitFanout /\ [][NextTrigger]_vars

----------------------------------------------------------------------------
(* Credentials: the secret and the bearer token a subscription is created   *)
(* with, and the headers an outgoing request carries. The clock counts      *)
(* minutes here.                                                            *)

MaxPeriods == 3
MaxSubscriptions == 2
MaxRequests == 1

(* Twelve hours, the step the clock makes between the calls *)
ClockStep == 720

(* internal/config: HMAC_KEY_LENGTH, JWT_TOKEN_EXPIRATION (hours), JWT_SECRET *)
HMACKeyLength == 32
JWTTokenExpiration == 24
JwtSecret == "your-super-secret-jwt-key-change-in-production"

WebhookTypePublic == "public"
WebhookTypePrivate == "private"

SecurityTenants == {"acme", "globex"}
WebhookTypeInputs == {WebhookTypePublic, WebhookTypePrivate, "internal"}
Bodies == {"{order:1}", "{order:2}"}

(* uuid.New(): the ids in the order they are drawn *)
NewWebhookIds == <<"w1", "w2", "w3">>

(* rand.Read: byte strings of the asked length, two of them *)
RandomBytes(n) == {[i \in 1..n |-> b] : b \in {10, 255}}

HexDigits == <<"0", "1", "2", "3", "4", "5", "6", "7", "8", "9", "a", "b", "c", "d", "e", "f">>

(* hex.EncodeToString: two lower-case digits per byte *)
EncodeToString(bytes) ==
    [i \in 1..(2 * Len(bytes)) |->
        LET byte == bytes[(i + 1) \div 2]
        IN  HexDigits[(IF i % 2 = 1 THEN byte \div 16 ELSE byte % 16) + 1]]

(* GenerateHMACSecretKey: the keys it can return *)
GenerateHMACSecretKey == {EncodeToString(bytes) : bytes \in RandomBytes(HMACKeyLength)}

(* GenerateJWTToken: the claims, and the token signed HS256 with the        *)
(* service's secret. A token is what it parses to, the algorithm of its     *)
(* header and the key its signature was made with.                          *)
GenerateJWTToken(tenantID, webhookID) ==
    [parses |-> TRUE,
     alg |-> "HS256",
     key |-> JwtSecret,
     claims |-> [tenant_id |-> tenantID,
                 webhook_id |-> webhookID,
                 exp |-> now + JWTTokenExpiration * 60,
                 iat |-> now,
                 nbf |-> now]]

(* GenerateHMACSignature: the lower-case hex text of HMAC-SHA256 of the     *)
(* payload under the secret, the MAC being named by what it was made of     *)
GenerateHMACSignature(payload, secret) ==
    [data |-> payload, key |-> secret, upper |-> FALSE]

(* VerifyHMACSignature: the texts are compared byte by byte *)
VerifyHMACSignature(payload, signature, secret) ==
    signature = GenerateHMACSignature(payload, secret)

GenerateWebhookSecurity_AlwaysToken(isPrivate, tenantID, webhookID, key) ==
    [secret_token |-> key,
     jwt_token |-> Some(GenerateJWTToken(tenantID, webhookID))]

(* GenerateWebhookSecurity, key being the secret GenerateHMACSecretKey      *)
(* returned                                                                 *)
GenerateWebhookSecurity(isPrivate, tenantID, webhookID, key) ==
    [secret_token |-> key,
     jwt_token |-> IF isPrivate THEN Some(GenerateJWTToken(tenantID, webhookID)) ELSE NULL]

(* The subscription row GenerateWebhook and SubscribeWebhook build *)
NewSubscription(req, webhookID, key, targetURL) ==
    LET securityData == GenerateWebhookSecurity(req.type = WebhookTypePrivate,
                                                req.tenant_id, webhookID, key)
    IN  [tenant_id |-> req.tenant_id,
         target_url |-> targetURL,
         subscribed_event |-> "order.placed",
         type |-> req.type,
         secret_token |-> securityData.secret_token,
         jwt_token |-> securityData.jwt_token,
         is_active |-> TRUE]

GenerateWebhookRequest == [tenant_id : SecurityTenants, type : WebhookTypeInputs]

SubscribeWebhookRequest ==
    [tenant_id : SecurityTenants, type : WebhookTypeInputs, target_url : {"https://subscriber"}]

(* The type of the request is one of the two webhook types *)
ValidWebhookType(req) == req.type \in {WebhookTypePublic, WebhookTypePrivate}

(* The part GenerateWebhook and SubscribeWebhook share: a request of        *)
(* another type is answered with an error; otherwise the id is drawn, the   *)
(* credentials are generated and the row is inserted (an error of           *)
(* CreateSubscription is returned and nothing is stored)                    *)
CreateSubscription(req, generated) ==
    /\ ValidWebhookType(req)
    /\ LET webhookID == NewWebhookIds[Cardinality(DOMAIN subscriptions) + 1]
           targetURL == IF generated
                            THEN <<"http://localhost:8080/api/webhooks/receive/", webhookID>>
                            ELSE <<req.target_url>>
       IN  \E key \in GenerateHMACSecretKey, ok \in StoreOutcomes :
               /\ storageFaults' = Fault(ok)
               /\ subscriptions' =
                      IF ok THEN subscriptions @@
                                 (webhookID :> NewSubscription(req, webhookID, key, targetURL))
                            ELSE subscriptions
    /\ UNCHANGED <<now, chains, runs, stepRuns, tasks, triggerLog>>
    /\ UNCHANGED restVars

(* GenerateWebhook: the target is the receive URL of the new id *)
GenerateWebhook(req) == CreateSubscription(req, TRUE)

(* SubscribeWebhook: the target is the URL of the request *)
SubscribeWebhook(req) == CreateSubscription(req, FALSE)

(* Half a day passes *)
Elapse ==
    /\ now + ClockStep <= MaxPeriods * ClockStep
    /\ now' = now + ClockStep
    /\ UNCHANGED <<storageFaults, subscriptions, chains, runs, stepRuns, tasks, triggerLog>>
    /\ UNCHANGED restVars

(* Header values: the text before the credential and the credential *)
NoSignature == [prefix |-> "", hex |-> [data |-> "", key |-> <<>>, upper |-> FALSE]]
NoToken == [parses |-> FALSE, alg |-> "", key |-> "",
            claims |-> [tenant_id |-> "", webhook_id |-> "", exp |-> 0, iat |-> 0, nbf |-> 0]]
NoAuthorization == [prefix |-> "", token |-> NoToken]

(* time.Now().Format(time.RFC3339) *)
FormatRFC3339(t) == [parses |-> TRUE, time |-> t]

DeliveryRequest_SignsWithServiceSecret(kind, webhookID, subscription, payload) ==
    [kind |-> kind,
     webhook_id |-> webhookID,
     body |-> payload,
     signature |-> [prefix |-> "sha256=",
                    hex |-> GenerateHMACSignature(payload, <<JwtSecret>>)],
     timestamp |-> FormatRFC3339(now),
     authorization |-> IF subscription.type = WebhookTypePrivate /\ subscription.jwt_token # NULL
                           THEN [prefix |-> "Bearer ", token |-> subscription.jwt_token[1]]
                           ELSE NoAuthorization,
     sent_at |-> now]

(* The request sendWebhookToSubscription and sendStepWebhook build for a    *)
(* subscription row and the bytes of the body: both sign the body with the  *)
(* row's secret, stamp the time and add the row's stored bearer token if    *)
(* the row is private                                                       *)
DeliveryRequest(kind, webhookID, subscription, payload) ==
    [kind |-> kind,
     webhook_id |-> webhookID,
     body |-> payload,
     signature |-> [prefix |-> "sha256=",
                    hex |-> GenerateHMACSignature(payload, subscription.secret_token)],
     timestamp |-> FormatRFC3339(now),
     authorization |-> IF subscription.type = WebhookTypePrivate /\ subscription.jwt_token # NULL
                           THEN [prefix |-> "Bearer ", token |-> subscription.jwt_token[1]]
                           ELSE NoAuthorization,
     sent_at |-> now]

(* A delivery of the fan-out to an active subscription *)
sendWebhookToSubscription_request(webhookID, payload) ==
    /\ webhookID \in DOMAIN subscriptions
    /\ subscriptions[webhookID].is_active
    /\ requests' = Append(requests,
                          DeliveryRequest("event", webhookID, subscriptions[webhookID], payload))
    /\ UNCHANGED <<now, storageFaults, subscriptions, chains, runs, stepRuns, tasks,
                   triggerLog, events, eventResults, call, sends, verifications>>

(* The request of a chain step to its preloaded subscription *)
sendStepWebhook_request(webhookID, payloadBytes) ==
    /\ webhookID \in DOMAIN subscriptions
    /\ requests' = Append(requests,
                          DeliveryRequest("step", webhookID, subscriptions[webhookID], payloadBytes))
    /\ UNCHANGED <<now, storageFaults, subscriptions, chains, runs, stepRuns, tasks,
                   triggerLog, events, eventResults, call, sends, verifications>>

InitSecurity ==
    /\ now = 0
    /\ storageFaults = 0
    /\ subscriptions = <<>>
    /\ chains = <<>>
    /\ runs = <<>>
    /\ stepRuns = <<>>
    /\ tasks = <<>>
    /\ triggerLog = <<>>
    /\ events = <<>>
    /\ eventResults = <<>>
    /\ call = NULL
    /\ sends = <<>>
    /\ requests = <<>>
    /\ verifications = <<>>

NextSecurity ==
    \/ Elapse
    \/ /\ Cardinality(DOMAIN subscriptions) < MaxSubscriptions
       /\ \E req \in GenerateWebhookRequest : GenerateWebhook(req)
    \/ /\ Cardinality(DOMAIN subscriptions) < MaxSubscriptions
       /\ \E req \in SubscribeWebhookRequest : SubscribeWebhook(req)
    \/ /\ Len(requests) < MaxRequests
       /\ \E webhookID \in DOMAIN subscriptions, payload \in Bodies :
              sendWebhookToSubscription_request(webhookID, payload)
    \/ /\ Len(requests) < MaxRequests
       /\ \E webhookID \in DOMAIN subscriptions, payload \in Bodies :
              sendStepWebhook_request(webhookID, payload)

SpecSecurity == InitSecurity /\ [][NextSecurity]_vars

----------------------------------------------------------------------------
(* VerifyWebhook: the checks an incoming request has to pass *)

MaxVerifications == 1

(* The signing methods of the HMAC family *)
SigningMethodHMAC == {"HS256", "HS384", "HS512"}

(* VerifyJWTToken: the claims of a token that parses, is signed with a      *)
(* method of the HMAC family and the service's secret, and is valid now     *)
(* (not expired, not used before nbf or iat); NULL stands for the error     *)
VerifyJWTToken(token) ==
    IF /\ token.parses
       /\ token.alg \in SigningMethodHMAC
       /\ token.key = JwtSecret
       /\ now < token.claims.exp
       /\ now >= token.claims.nbf
       /\ now >= token.claims.iat
        THEN Some(token.claims)
        ELSE NULL

ValidateTimestamp_ParsesOnly(timestamp, toleranceMinutes) ==
    timestamp.parses

(* ValidateTimestamp: after now - tolerance and before now + tolerance *)
ValidateTimestamp(timestamp, toleranceMinutes) ==
    /\ timestamp.parses
    /\ timestamp.time > now - toleranceMinutes
    /\ timestamp.time < now + toleranceMinutes

(* ExtractSignatureFromHeader: what follows "sha256=", NULL for the error *)
ExtractSignatureFromHeader(signatureHeader) ==
    IF signatureHeader = NoSignature THEN NULL
    ELSE IF signatureHeader.prefix # "sha256=" THEN NULL
    ELSE Some(signatureHeader.hex)

(* ExtractBearerToken: what follows "Bearer ", NULL for the error *)
ExtractBearerToken(authHeader) ==
    IF authHeader = NoAuthorization THEN NULL
    ELSE IF authHeader.prefix # "Bearer " THEN NULL
    ELSE Some(authHeader.token)

ClaimsMatch_Unchecked(claims, webhookID, subscription) == TRUE

(* The claims name the webhook of the request and its subscription's tenant *)
ClaimsMatch(claims, webhookID, subscription) ==
    /\ claims.webhook_id = webhookID
    /\ claims.tenant_id = subscription.tenant_id

(* The bearer checks of VerifyWebhook for a private subscription: the       *)
(* error, or NULL                                                           *)
VerifyBearer(webhookID, subscription, authHeader) ==
    IF authHeader = NoAuthorization
        THEN Some("authorization header is required for private webhooks")
    ELSE IF ExtractBearerToken(authHeader) = NULL
        THEN Some("invalid authorization header")
    ELSE IF VerifyJWTToken(ExtractBearerToken(authHeader)[1]) = NULL
        THEN Some("JWT token verification failed")
    ELSE IF ~ClaimsMatch(VerifyJWTToken(ExtractBearerToken(authHeader)[1])[1],
                         webhookID, subscription)
        THEN Some("JWT token claims do not match webhook")
    ELSE NULL

(* What VerifyWebhook returns: the error of the first check that fails, or  *)
(* NULL. found tells whether GetSubscriptionByID returned a row.            *)
VerifyWebhookError(webhookID, payload, signature, timestamp, authHeader, found) ==
    IF ~found
        THEN Some("webhook subscription not found")
    ELSE IF ~subscriptions[webhookID].is_active
        THEN Some("webhook subscription is inactive")
    ELSE IF ExtractSignatureFromHeader(signature) = NULL
        THEN Some("invalid signature header")
    ELSE IF ~VerifyHMACSignature(payload, ExtractSignatureFromHeader(signature)[1],
                                 subscriptions[webhookID].secret_token)
        THEN Some("HMAC signature verification failed")
    ELSE IF ~ValidateTimestamp(timestamp, 5)
        THEN Some("timestamp is outside allowed tolerance")
    ELSE IF subscriptions[webhookID].type = WebhookTypePrivate
        THEN VerifyBearer(webhookID, subscriptions[webhookID], authHeader)
    ELSE NULL

VerifyWebhook(webhookID, payload, signature, timestamp, authHeader) ==
    /\ \E ok \in StoreOutcomes :
          /\ storageFaults' = Fault(ok)
          /\ verifications' = Append(verifications,
                 [webhook_id |-> webhookID,
                  payload |-> payload,
                  signature |-> signature,
                  timestamp |-> timestamp,
                  authorization |-> authHeader,
                  store_ok |-> ok,
                  err |-> VerifyWebhookError(webhookID, payload, signature, timestamp,
                                             authHeader,
                                             ok /\ webhookID \in DOMAIN subscriptions)])
    /\ UNCHANGED <<now, subscriptions, chains, runs, stepRuns, tasks, triggerLog,
                   events, eventResults, call, sends, requests>>

(* UpdateSubscription of the repository saving a row with is_active off *)
DeactivateSubscription(id) ==
    /\ id \in DOMAIN subscriptions
    /\ subscriptions[id].is_active
    /\ subscriptions' = [subscriptions EXCEPT ![id].is_active = FALSE]
    /\ UNCHANGED <<now, storageFaults, chains, runs, stepRuns, tasks, triggerLog>>
    /\ UNCHANGED restVars

(* What a caller can put into the headers: the credentials of the           *)
(* subscriptions and what can be made of them                               *)
StoredTokens == {subscriptions[w].jwt_token[1] :
                    w \in {v \in DOMAIN subscriptions : subscriptions[v].jwt_token # NULL}}

TokenInputs ==
    StoredTokens
    \cup {[t EXCEPT !.claims.tenant_id = tenantID] : t \in StoredTokens, tenantID \in SecurityTenants}
    \cup {[t EXCEPT !.key = "guessed"] : t \in StoredTokens}
    \cup {[t EXCEPT !.alg = "RS256"] : t \in StoredTokens}
    \cup {NoToken}

AuthorizationInputs ==
    {NoAuthorization}
    \cup {[prefix |-> "Bearer ", token |-> t] : t \in TokenInputs}
    \cup {[prefix |-> "", token |-> t] : t \in StoredTokens}

SignatureInputs ==
    {NoSignature}
    \cup {[prefix |-> "sha256=", hex |-> GenerateHMACSignature(body, subscriptions[w].secret_token)] :
             body \in Bodies, w \in DOMAIN subscriptions}
    \cup {[prefix |-> "", hex |-> GenerateHMACSignature(body, subscriptions[w].secret_token)] :
             body \in {"{order:1}"}, w \in DOMAIN subscriptions}
    \cup {[prefix |-> "sha256=",
           hex |-> [GenerateHMACSignature(body, subscriptions[w].secret_token)
                       EXCEPT !.upper = TRUE]] :
             body \in {"{order:1}"}, w \in DOMAIN subscriptions}

TimestampInputs ==
    {FormatRFC3339(now + d) : d \in {-5, -4, 4, 5}} \cup {[parses |-> FALSE, time |-> 0]}

(* Three subscriptions created when the service started: two private ones  *)
(* of different tenants and a public one                                    *)
InitVerify ==
    /\ now = 0
    /\ storageFaults = 0
    /\ chains = <<>>
    /\ runs = <<>>
    /\ stepRuns = <<>>
    /\ tasks = <<>>
    /\ triggerLog = <<>>
    /\ events = <<>>
    /\ eventResults = <<>>
    /\ call = NULL
    /\ sends = <<>>
    /\ requests = <<>>
    /\ verifications = <<>>
    /\ LET k1 == EncodeToString([i \in 1..HMACKeyLength |-> 10])
           k2 == EncodeToString([i \in 1..HMACKeyLength |-> 255])
       IN  /\ {k1, k2} \subseteq GenerateHMACSecretKey
           /\ subscriptions =
                  ("w1" :> NewSubscription([tenant_id |-> "acme", type |-> WebhookTypePrivate],
                                           "w1", k1, <<"https://subscriber">>))
                  @@ ("w2" :> NewSubscription([tenant_id |-> "globex", type |-> WebhookTypePrivate],
                                              "w2", k2, <<"https://subscriber">>))
                  @@ ("w3" :> NewSubscription([tenant_id |-> "acme", type |-> WebhookTypePublic],
                                              "w3", k1, <<"https://subscriber">>))

NextVerify ==
    \/ Elapse
    \/ \E id \in DOMAIN subscriptions : DeactivateSubscription(id)
    \/ /\ Len(verifications) < MaxVerifications
       /\ \E webhookID \in DOMAIN subscriptions \cup {"w4"}, payload \in Bodies,
             signature \in SignatureInputs, timestamp \in TimestampInputs,
             authHeader \in AuthorizationInputs :
              VerifyWebhook(webhookID, payload, signature, timestamp, authHeader)

SpecVerify == InitVerify /\ [][NextVerify]_vars

----------------------------------------------------------------------------
(* The chain engine on chains whose steps continue or retry on failure,    *)
(* pause on success and sleep a delay                                      *)

(* The steps of these chains go to the subscription w1 and have one retry *)
EngineSteps ==
    {[webhook_id |-> "w1", on_success_action |-> "", on_failure_action |-> "continue",
      max_retries |-> 1, delay_seconds |-> 0],
     [webhook_id |-> "w1", on_success_action |-> "", on_failure_action |-> "retry",
      max_retries |-> 1, delay_seconds |-> 1],
     [webhook_id |-> "w1", on_success_action |-> "pause", on_failure_action |-> "",
      max_retries |-> 1, delay_seconds |-> 0]}

EngineRequests ==
    [tenant_id : Tenants,
     trigger_event : TriggerEvents,
     steps : SeqsUpTo(EngineSteps, MaxSteps)]

NextEngine ==
    \/ Len(chains) < MaxChains /\ \E req \in EngineRequests : CreateChain(req)
    \/ Len(runs) < MaxRuns /\ \E chainID \in 1..MaxChains : ExecuteChain(chainID)
    \/ \E runID \in DOMAIN tasks : ExecuteChain_return(runID)
    \/ \E runID \in DOMAIN tasks : executeChainSteps_step(runID)
    \/ \E runID \in DOMAIN tasks : executeChainSteps_delay(runID)
    \/ \E runID \in DOMAIN tasks : executeStep_create(runID)
    \/ \E runID \in DOMAIN tasks : executeStep_attempt(runID)
    \/ \E runID \in DOMAIN tasks : executeChainSteps_result(runID)
    \/ \E runID \in DOMAIN tasks : executeChainSteps_completed(runID)

SpecEngine == Init /\ [][NextEngine]_vars

(* One step of the goroutine that drives run runID *)
executeChainSteps(runID) ==
    /\ runID \in DOMAIN tasks
    /\ \/ executeChainSteps_step(runID)
       \/ executeChainSteps_delay(runID)
       \/ executeStep_create(runID)
       \/ executeStep_attempt(runID)
       \/ executeChainSteps_result(runID)
       \/ executeChainSteps_completed(runID)

(* The process keeps running and every HTTP call, sleep and persistence    *)
(* call returns: a task that can take a step eventually takes one          *)
SpecEngineFair ==
    /\ Init
    /\ [][NextEngine]_vars
    /\ \A runID \in 1..MaxRuns : WF_vars(executeChainSteps(runID))

----------------------------------------------------------------------------
(* Concurrent runs: up to MaxRunsConcurrent runs of one chain, each driven *)
(* by its own task, the tasks interleaved step by step                     *)

MaxRunsConcurrent == 2

(* Chains of one step *)
ConcurrentRequests == {req \in EngineRequests : Len(req.steps) = 1}

NextConcurrent ==
    \/ Len(chains) < MaxChains /\ \E req \in ConcurrentRequests : CreateChain(req)
    \/ Len(runs) < MaxRunsConcurrent /\ \E chainID \in 1..MaxChains : ExecuteChain(chainID)
    \/ \E runID \in DOMAIN tasks : executeChainSteps(runID)

SpecConcurrent == Init /\ [][NextConcurrent]_vars

----------------------------------------------------------------------------
(* The request body of a chain step: sendStepWebhook's payload and what     *)
(* executeStep persists of it                                               *)

(* JSON values: a type and the text of the value *)
JsonString(text) == [type |-> "string", text |-> text]
JsonNumber(text) == [type |-> "number", text |-> text]

(* The placeholders of the template syntax, and the path each one names *)
Placeholders ==
    {"{{.trigger_data.order_id}}", "{{.step_1.response.payment_id}}", "{{.step_1.request.amount}}"}

(* request_params of a step: none, or an object whose member pid is a       *)
(* literal or a placeholder                                                 *)
RequestParamsInputs ==
    {NULL} \cup {Some([pid |-> v]) :
                    v \in {JsonString(p) : p \in Placeholders}
                          \cup {JsonString("PAY-0"), JsonNumber("7"), JsonString("{{.unknown}}")}}

JsonInputs == {JsonString("PAY-1"), JsonNumber("42"), JsonString("")}

StepPayloadInputs ==
    [request_params : RequestParamsInputs,
     trigger_data : [order_id : JsonInputs],
     step_1_response : [payment_id : JsonInputs],
     step_1_request : [amount : {JsonNumber("42")}]]

(* The payload map sendStepWebhook marshals into the request body: the      *)
(* trigger data and, if the step has any, its request_params as stored.     *)
(* executeStep hands sendStepWebhook the step and the trigger data only.    *)
StepPayload(in) ==
    [step_order |-> 2,
     trigger_data |-> in.trigger_data,
     request_params |-> in.request_params]

(* RequestPayload of the step run row: executeStep neither sets it when it  *)
(* creates the row nor names it in an update                                *)
StepRunRequestPayload(in) == NULL

InitPayload ==
    /\ InitStore
    /\ call \in {[in |-> in, sent |-> NULL, request_payload |-> NULL] : in \in StepPayloadInputs}

(* The step is executed: the body is built and sent, the step run written *)
BuildStepPayload ==
    /\ call.sent = NULL
    /\ call' = [call EXCEPT !.sent = Some(StepPayload(call.in)),
                            !.request_payload = StepRunRequestPayload(call.in)]
    /\ UNCHANGED <<now, storageFaults, subscriptions, chains, runs, stepRuns, tasks,
                   triggerLog, events, eventResults, sends, requests, verifications>>

NextPayload == BuildStepPayload

SpecPayload == InitPayload /\ [][NextPayload]_vars

(* What a template value stands for according to the template syntax: the   *)
(* value a placeholder references, with its type, and any other value       *)
(* itself                                                                   *)
ResolveTemplate(v, in) ==
    IF v = JsonString("{{.trigger_data.order_id}}") THEN in.trigger_data.order_id
    ELSE IF v = JsonString("{{.step_1.response.payment_id}}") THEN in.step_1_response.payment_id
    ELSE IF v = JsonString("{{.step_1.request.amount}}") THEN in.step_1_request.amount
    ELSE v

----------------------------------------------------------------------------
(* Views of the persisted state used by the properties *)

TerminalRunStatuses == {ExecutionChainStatusCompleted, ExecutionChainStatusFailed}
TerminalStepStatuses == {WebhookStatusSent, WebhookStatusFailed}

(* Ids of the step run rows of a run, and the step orders they carry *)
StepRunsOf(runID) == {i \in DOMAIN stepRuns : stepRuns[i].run_id = runID}
StepOrdersOf(runID) == {stepRuns[i].step_order : i \in StepRunsOf(runID)}

(* The persisted step row a step run belongs to *)
StepOf(i) == chains[runs[stepRuns[i].run_id].chain_id].steps[stepRuns[i].step_order]

(* No persistence call has failed so far *)
StorageReliable == storageFaults = 0

----------------------------------------------------------------------------
(* C1: in every reachable state a run's completed_at is set if and only if *)
(* its status is completed or failed, and when set it is not earlier than  *)
(* started_at.                                                              *)
C1_CompletedAtIffTerminal ==
    \A r \in DOMAIN runs :
        /\ runs[r].completed_at # NULL <=> runs[r].status \in TerminalRunStatuses
        /\ runs[r].completed_at # NULL =>
               /\ runs[r].started_at # NULL
               /\ runs[r].completed_at[1] >= runs[r].started_at[1]

(* A run that reached a terminal status some time after it started *)
C1_Witness ==
    \E r \in DOMAIN runs :
        /\ runs[r].status \in TerminalRunStatuses
        /\ runs[r].completed_at # NULL
        /\ runs[r].completed_at[1] > runs[r].started_at[1]

(* C2: completed and failed are terminal: once a run has one of these      *)
(* statuses no step of the engine changes its status or current_step, and  *)
(* no step run row of that run is created or updated.                       *)
C2_TerminalRunsAreFrozen ==
    [][\A r \in DOMAIN runs :
          runs[r].status \in TerminalRunStatuses =>
              /\ runs'[r].status = runs[r].status
              /\ runs'[r].current_step = runs[r].current_step
              /\ {i \in DOMAIN stepRuns' : stepRuns'[i].run_id = r} = StepRunsOf(r)
              /\ \A i \in StepRunsOf(r) : stepRuns'[i] = stepRuns[i]]_vars

(* A run with step runs that was marked terminal, and time went on after it *)
C2_Witness ==
    \E r \in DOMAIN runs :
        /\ runs[r].status \in TerminalRunStatuses
        /\ StepRunsOf(r) # {}
        /\ now > runs[r].completed_at[1]

(* C3: for every step run, attempt_count <= max_retries + 1, max_retries   *)
(* being the value stored on the step the step run belongs to.             *)
C3_AttemptCountWithinRetries ==
    \A i \in DOMAIN stepRuns :
        stepRuns[i].attempt_count <= StepOf(i).max_retries + 1

(* C4: within one run (every persistence call succeeding) the step run of  *)
(* step N+1 is created only after the step run of step N reached a         *)
(* terminal status with completed_at set, and no two step runs of a run    *)
(* are in progress at the same time.                                       *)
C4_StepsStrictlySequential ==
    StorageReliable =>
        \A r \in DOMAIN runs :
            /\ \A j \in StepRunsOf(r) :
                   stepRuns[j].step_order > 1 =>
                       \E i \in StepRunsOf(r) :
                           /\ i < j
                           /\ stepRuns[i].step_order = stepRuns[j].step_order - 1
                           /\ stepRuns[i].status \in TerminalStepStatuses
                           /\ stepRuns[i].completed_at # NULL
            /\ Cardinality({i \in StepRunsOf(r) : stepRuns[i].status = WebhookStatusPending}) <= 1

(* C5: for every run (every persistence call succeeding) the step orders   *)
(* of its step runs are exactly 1..k for some k, with one step run each.   *)
C5_StepRunsArePrefix ==
    StorageReliable =>
        \A r \in DOMAIN runs :
            /\ StepOrdersOf(r) = 1..Cardinality(StepOrdersOf(r))
            /\ Cardinality(StepRunsOf(r)) = Cardinality(StepOrdersOf(r))

(* C6: if a step with on_success_action stop succeeded, the run (every     *)
(* persistence call succeeding) is marked completed and has no step run    *)
(* for any step of a higher step order.                                    *)
C6_StopOnSuccess ==
    StorageReliable =>
        \A r \in DOMAIN runs : \A i \in StepRunsOf(r) :
            (/\ tasks[r].pc = "done"
             /\ StepOf(i).on_success_action = "stop"
             /\ stepRuns[i].status = WebhookStatusSent)
            => /\ runs[r].status = ExecutionChainStatusCompleted
               /\ \A j \in StepRunsOf(r) : stepRuns[j].step_order <= stepRuns[i].step_order

(* C7: if step k failed and its on_failure_action is stop, the run (every  *)
(* persistence call succeeding) ends failed with current_step = k, every   *)
(* step before k has its step run and no step after k has one.             *)
C7_StopOnFailure ==
    StorageReliable =>
        \A r \in DOMAIN runs : \A i \in StepRunsOf(r) :
            (/\ tasks[r].pc = "done"
             /\ StepOf(i).on_failure_action = "stop"
             /\ stepRuns[i].status = WebhookStatusFailed)
            => /\ runs[r].status = ExecutionChainStatusFailed
               /\ runs[r].current_step = stepRuns[i].step_order
               /\ StepOrdersOf(r) = 1..stepRuns[i].step_order

(* C8: a run marked failed because a step failed with on_failure_action    *)
(* stop carries that step's error in last_error.                           *)
C8_FailedRunHasLastError ==
    \A r \in DOMAIN runs :
        runs[r].status = ExecutionChainStatusFailed => runs[r].last_error # NULL

(* C9: a step created with max_retries = 0 is stored with max_retries = 0  *)
(* (and is then attempted exactly once).                                   *)
C9_ZeroRetriesStored ==
    [][\A req \in CreateExecutionChainRequest :
          (CreateChain(req) /\ Len(chains') = Len(chains) + 1) =>
              \A i \in 1..Len(req.steps) :
                  req.steps[i].max_retries = 0 =>
                      chains'[Len(chains')].steps[i].max_retries = 0]_vars

(* C10: a step run whose attempt received an HTTP 4xx response (every      *)
(* persistence call succeeding) is failed with completed_at set: the step  *)
(* fails at once, whatever its max_retries.                                *)
C10_ClientErrorFailsStep ==
    StorageReliable =>
        \A i \in DOMAIN stepRuns :
            (/\ stepRuns[i].response_code # NULL
             /\ stepRuns[i].response_code[1] >= 400
             /\ stepRuns[i].response_code[1] < 500)
            => /\ stepRuns[i].status = WebhookStatusFailed
               /\ stepRuns[i].completed_at # NULL
(* The step run is the one executeStep of its run's task is still retrying *)
InRetryLoop(i) ==
    /\ tasks[stepRuns[i].run_id].pc = "attempt"
    /\ tasks[stepRuns[i].run_id].stepRunID = i

(* C11: attempts of a chain step that do not end in a 2xx are retried one   *)
(* after the other until the first 2xx or until max_retries retries were   *)
(* made (every persistence call succeeding): while executeStep is in its   *)
(* loop the step run is pending with fewer than max_retries + 1 attempts;  *)
(* once it returned, the step run is either sent, by a 2xx on its last     *)
(* attempt j <= max_retries + 1 with attempt_count = j, or failed after    *)
(* exactly max_retries + 1 attempts.                                       *)
C11_RetriedUntilSuccessOrExhausted ==
    StorageReliable =>
        \A i \in DOMAIN stepRuns :
            IF InRetryLoop(i)
                THEN /\ stepRuns[i].status = WebhookStatusPending
                     /\ stepRuns[i].attempt_count = tasks[stepRuns[i].run_id].attempt
                     /\ stepRuns[i].attempt_count <= StepOf(i).max_retries
                ELSE \/ /\ stepRuns[i].status = WebhookStatusSent
                        /\ stepRuns[i].attempt_count \in 1..(StepOf(i).max_retries + 1)
                        /\ stepRuns[i].response_code # NULL
                        /\ stepRuns[i].response_code[1] \in 200..299
                     \/ /\ stepRuns[i].status = WebhookStatusFailed
                        /\ stepRuns[i].attempt_count = StepOf(i).max_retries + 1
(* The step a task is at, and the subscription that step references *)
CurrentStep(r) == tasks[r].steps[tasks[r].idx]

C13_CreateChainValidatesWebhooks ==
    [][/\ \A req \in RegistryRequests :
             (CreateChain(req) /\ ~WebhooksValid(req)) => chains' = chains
       /\ chains' # chains =>
             /\ Len(chains') = Len(chains) + 1
             /\ LET chain == chains'[Len(chains')] IN
                \A i \in 1..Len(chain.steps) :
                    /\ chain.steps[i].webhook_id \in DOMAIN subscriptions
                    /\ subscriptions[chain.steps[i].webhook_id].tenant_id = chain.tenant_id]_vars

(* A persisted chain of two steps, while a subscription of another tenant  *)
(* and an unknown subscription id were on offer to the requests            *)
C13_Witness ==
    /\ \E w \in DOMAIN subscriptions : subscriptions[w].tenant_id = "globex"
    /\ \E w \in WebhookIds : w \notin DOMAIN subscriptions
    /\ \E c \in DOMAIN chains :
           /\ chains[c].tenant_id = "acme"
           /\ Len(chains[c].steps) = 2

(* C14: tenancy is validated again at step execution: executeStep sends no *)
(* request for a step whose subscription belongs, at that moment, to       *)
(* another tenant than the chain.                                          *)
C14_NoRequestAcrossTenants ==
    [][\A r \in DOMAIN tasks :
          (/\ executeStep_attempt(r)
           /\ CurrentStep(r).webhook # NULL
           /\ CurrentStep(r).webhook_id \in DOMAIN subscriptions)
          => subscriptions[CurrentStep(r).webhook_id].tenant_id = runs[r].tenant_id]_vars

(* C15: ExecuteChain on a chain id that does not exist or on an inactive   *)
(* chain creates no run and starts no task; on an existing active chain    *)
(* with N steps it inserts (the insert succeeding) exactly one run, with   *)
(* status running, current_step 0 and total_steps N, and starts its task.  *)
C15_ExecuteChainStartsOneRun ==
    [][\A chainID \in 1..MaxChainsOps :
          ExecuteChain(chainID) =>
              IF /\ chainID \in DOMAIN chains
                 /\ chains[chainID].is_active
                 /\ storageFaults' = storageFaults
                  THEN /\ Len(runs') = Len(runs) + 1
                       /\ SubSeq(runs', 1, Len(runs)) = runs
                       /\ runs'[Len(runs')].chain_id = chainID
                       /\ runs'[Len(runs')].status = ExecutionChainStatusRunning
                       /\ runs'[Len(runs')].current_step = 0
                       /\ runs'[Len(runs')].total_steps = Len(chains[chainID].steps)
                       /\ Len(tasks') = Len(tasks) + 1
                  ELSE runs' = runs /\ tasks' = tasks]_vars

(* A run of an active chain next to an inactive chain that has no run *)
C15_Witness ==
    /\ \E c \in DOMAIN chains :
           /\ ~chains[c].is_active
           /\ \A r \in DOMAIN runs : runs[r].chain_id # c
    /\ \E r \in DOMAIN runs :
           /\ chains[runs[r].chain_id].is_active
           /\ runs[r].status = ExecutionChainStatusRunning
           /\ runs[r].current_step = 0
           /\ runs[r].total_steps = Len(chains[runs[r].chain_id].steps)

(* C16: ExecuteChainByEvent(tenant, event) starts one run for each active  *)
(* chain of that tenant whose trigger event is that event and none for any *)
(* other chain; if starting one chain's run fails, the runs of the other   *)
(* matching chains are started all the same.                               *)
C16_TriggerStartsEveryMatchingChain ==
    [][\A tenantID \in OpsTenants, event \in OpsTriggerEvents :
          ExecuteChainByEvent(tenantID, event) =>
              LET started == {runs'[k].chain_id : k \in (Len(runs) + 1)..Len(runs')}
                  matching == ChainsByTriggerEvent(tenantID, event)
              IN  /\ Cardinality(started) = Len(runs') - Len(runs)
                  /\ started \subseteq matching
                  /\ storageFaults' = storageFaults => started = matching
                  /\ ~triggerLog'[Len(triggerLog')].err =>
                         Cardinality(started) >=
                             Cardinality(matching) - (storageFaults' - storageFaults)]_vars
(* C17: the body sent for a step carries as request_params the step's     *)
(* template with every placeholder replaced by the value it references,    *)
(* type preserved, and that body is persisted as the step run's request    *)
(* payload.                                                                *)
C17_PlaceholdersResolvedAndPersisted ==
    (call # NULL /\ call.sent # NULL /\ call.in.request_params # NULL) =>
        /\ call.sent[1].request_params # NULL
        /\ call.sent[1].request_params[1].pid =
               ResolveTemplate(call.in.request_params[1].pid, call.in)
        /\ call.request_payload = call.sent
(* The calls of SendEvent that returned a result, and their results *)
Dispatched == {k \in DOMAIN eventResults : ~eventResults[k].err}
ResultOf(k) == eventResults[k].result[1]

(* C18: in every result of SendEvent total_sent + total_failed is the      *)
(* number of delivery outcomes, which is the number of subscriptions the   *)
(* registry query returned, and total_sent counts exactly the outcomes     *)
(* with success = true.                                                    *)
C18_CountsAddUp ==
    \A k \in Dispatched :
        /\ ResultOf(k).total_sent + ResultOf(k).total_failed = Len(ResultOf(k).webhooks)
        /\ Len(ResultOf(k).webhooks) =
               Cardinality(ActiveSubscriptionsByTenantAndEvent(
                               eventResults[k].request.tenant_id, eventResults[k].request.event))
        /\ ResultOf(k).total_sent =
               Cardinality({i \in DOMAIN ResultOf(k).webhooks : ResultOf(k).webhooks[i].success})

(* A dispatch to two subscriptions of which one answered 2xx and the other *)
(* did not answer at all                                                   *)
C18_Witness ==
    \E k \in Dispatched :
        /\ ResultOf(k).total_sent = 1
        /\ ResultOf(k).total_failed = 1
        /\ \E i \in DOMAIN ResultOf(k).webhooks : ResultOf(k).webhooks[i].response_code = NULL

(* C19: after SendEvent (every persistence call succeeding) the event row  *)
(* is not pending: it is sent if at least one delivery succeeded and none  *)
(* failed, and failed otherwise, also when no subscription matched;        *)
(* sent_at is set only when sent, and last_error says that all deliveries  *)
(* failed only when every delivery failed.                                 *)
C19_EventRowSettled ==
    StorageReliable =>
        \A k \in Dispatched :
            /\ k \in DOMAIN events
            /\ events[k].status # WebhookStatusPending
            /\ events[k].status = WebhookStatusSent <=>
                   (ResultOf(k).total_sent >= 1 /\ ResultOf(k).total_failed = 0)
            /\ events[k].sent_at # NULL => events[k].status = WebhookStatusSent
            /\ events[k].last_error # NULL =>
                   /\ ResultOf(k).total_sent = 0
                   /\ events[k].last_error = Some(AllDeliveriesFailed(Len(ResultOf(k).webhooks)))

(* C20: a delivery that ends in a 5xx (or a transport error) is retried    *)
(* until the first 2xx or until the subscription's max_retries retries are *)
(* used up: an endpoint that always answers 500 gets max_retries + 1       *)
(* attempts and a failure; an endpoint answering 500, 500, 200 to a        *)
(* subscription with max_retries = 3 gets a success with attempt_count 3.  *)
C20_DeliveryRetried ==
    \A k \in Dispatched : \A i \in DOMAIN ResultOf(k).webhooks :
        LET delivery == ResultOf(k).webhooks[i]
            script == eventResults[k].endpoints[delivery.webhook_id]
            maxRetries == subscriptions[delivery.webhook_id].max_retries
        IN  /\ AlwaysServerError(script) =>
                   /\ ~delivery.success
                   /\ delivery.attempt_count = maxRetries + 1
            /\ (script = <<Answer(500), Answer(500), Answer(200)>> /\ maxRetries = 3) =>
                   /\ delivery.success
                   /\ delivery.attempt_count = 3

(* The status of the first answer of the script is a client error *)
ClientError(script) ==
    /\ ~Head(script).transport_error
    /\ Head(script).status >= 400
    /\ Head(script).status < 500

DeliveryOutstanding(c) ==
    /\ sends[c].found # NULL
    /\ Len(sends[c].webhooks) < Len(sends[c].subs)

(* C23: while any delivery of an event is outstanding its event row is     *)
(* still pending, as CreateEvent wrote it: the row gets its outcome only   *)
(* after every delivery of the event has settled.                          *)
C23_RowPendingUntilDeliveriesSettle ==
    \A c \in DOMAIN sends :
        (DeliveryOutstanding(c) /\ c \in DOMAIN events) =>
            events[c] = NewEvent(sends[c].request)

(* The first of two deliveries has failed, the second request is under way *)
(* and the row is pending, while the row of another event is settled       *)
C23_Witness ==
    \E c \in DOMAIN sends :
        /\ DeliveryOutstanding(c)
        /\ Len(sends[c].webhooks) = 1
        /\ ~sends[c].webhooks[1].success
        /\ sends[c].sending
        /\ c \in DOMAIN events
        /\ events[c].status = WebhookStatusPending
        /\ \E d \in DOMAIN events : events[d].status = WebhookStatusFailed

(* The step is one of the chain engine: a chain is created, or a task      *)
(* moves on, or a step run row is written                                  *)
ChainEngineStep ==
    \/ chains' # chains
    \/ stepRuns' # stepRuns
    \/ \E r \in DOMAIN tasks : tasks'[r] # tasks[r]

(* The call of SendEvent for event c returns in this step *)
Returns(c) == sends[c].pc # "done" /\ sends'[c].pc = "done"

(* C24: a call of SendEvent that got past its query calls                  *)
(* ExecuteChainByEvent exactly once, with the tenant and the name of its   *)
(* event, as its last step and after the event row was saved with its      *)
(* outcome (every persistence call succeeding), whatever the deliveries    *)
(* gave and also without subscriptions; ExecuteChainByEvent is called by   *)
(* nothing else, and no step of the chain engine touches the events, the   *)
(* calls of SendEvent or their results.                                    *)
C24_ChainsTriggeredOncePerEvent ==
    [][/\ \A c \in DOMAIN sends :
              Returns(c) =>
                  /\ sends[c].pc = "trigger"
                  /\ Len(triggerLog') = Len(triggerLog) + 1
                  /\ triggerLog'[Len(triggerLog')].tenant_id = sends[c].request.tenant_id
                  /\ triggerLog'[Len(triggerLog')].event = sends[c].request.event
                  /\ events' = events
                  /\ StorageReliable =>
                         /\ c \in DOMAIN events
                         /\ events[c].attempts = 1
       /\ triggerLog' # triggerLog => \E c \in DOMAIN sends : Returns(c)
       /\ ChainEngineStep => UNCHANGED <<events, eventResults, sends, requests, triggerLog>>
      ]_vars

(* Both deliveries of the event failed, its row was saved as failed, and   *)
(* the one trigger of the event started a run of the chain, on which the   *)
(* chain engine has begun to work                                          *)
C24_Witness ==
    \E c \in DOMAIN sends :
        /\ sends[c].pc = "done"
        /\ Len(sends[c].webhooks) = 2
        /\ \A i \in DOMAIN sends[c].webhooks : ~sends[c].webhooks[i].success
        /\ c \in DOMAIN events
        /\ events[c].status = WebhookStatusFailed
        /\ triggerLog = <<[tenant_id |-> sends[c].request.tenant_id,
                           event |-> sends[c].request.event, err |-> FALSE]>>
        /\ Len(runs) = 1
        /\ stepRuns # <<>>

(* The subscriptions a request of event c has gone to *)
Requested(c) == {requests[j].webhook_id : j \in {k \in DOMAIN requests : requests[k].event_id = c}}

(* The program can now send the request of event c to subscription w *)
CanRequest(c, w) ==
    ENABLED (NextDispatch /\ requests' = Append(requests, [event_id |-> c, webhook_id |-> w]))

(* C25: the deliveries of one event run side by side: while SendEvent is   *)
(* waiting for the answer of one subscriber, the first request to every    *)
(* other subscriber of the event that has not been sent yet can be sent.   *)
C25_DeliveriesRunConcurrently ==
    \A c \in DOMAIN sends : \A i \in DOMAIN sends[c].subs :
        (sends[c].pc = "deliver" /\ sends[c].sending /\ sends[c].subs[i] \notin Requested(c))
            => CanRequest(c, sends[c].subs[i])

(* C26: every request sent to a subscriber, by the fan-out or by a chain   *)
(* step, carries as signature "sha256=" followed by the hex HMAC-SHA256 of *)
(* exactly the body it carries under the secret of the subscription it     *)
(* goes to: with that secret the receiver verifies the request, and does   *)
(* not verify it with any other body.                                      *)
C26_SignatureOverBodySent ==
    \A j \in DOMAIN requests :
        LET r == requests[j]
            secret == subscriptions[r.webhook_id].secret_token
        IN  /\ r.signature.prefix = "sha256="
            /\ r.signature.hex = [data |-> r.body, key |-> secret, upper |-> FALSE]
            /\ \A body \in Bodies :
                   VerifyHMACSignature(body, r.signature.hex, secret) <=> body = r.body

(* A chain step request to a subscription, while another subscription with *)
(* another secret exists                                                   *)
C26_Witness ==
    \E j \in DOMAIN requests :
        /\ requests[j].kind = "step"
        /\ \E w \in DOMAIN subscriptions :
               subscriptions[w].secret_token # subscriptions[requests[j].webhook_id].secret_token

(* The requests that went to a subscription of type private *)
PrivateDeliveries ==
    {j \in DOMAIN requests : subscriptions[requests[j].webhook_id].type = WebhookTypePrivate}

(* C27: every request to a private subscription carries "Bearer " and a    *)
(* token whose claims name the subscription's id and tenant and whose exp  *)
(* is later than the time the request is sent.                             *)
C27_BearerValidWhenSent ==
    \A j \in PrivateDeliveries :
        LET r == requests[j]
            claims == r.authorization.token.claims
        IN  /\ r.authorization.prefix = "Bearer "
            /\ r.authorization.token.parses
            /\ claims.webhook_id = r.webhook_id
            /\ claims.tenant_id = subscriptions[r.webhook_id].tenant_id
            /\ claims.exp > r.sent_at

(* C28: every subscription row has a non-empty secret, has a bearer token  *)
(* exactly if its type is private, and its type is public or private: a    *)
(* request of another type has created none.                               *)
C28_CredentialsMatchType ==
    \A w \in DOMAIN subscriptions :
        /\ Len(subscriptions[w].secret_token) > 0
        /\ subscriptions[w].jwt_token # NULL <=> subscriptions[w].type = WebhookTypePrivate
        /\ subscriptions[w].type \in {WebhookTypePublic, WebhookTypePrivate}

(* A generated public subscription without token next to a subscribed      *)
(* private one with its token                                              *)
C28_Witness ==
    \E v, w \in DOMAIN subscriptions :
        /\ subscriptions[v].type = WebhookTypePublic
        /\ subscriptions[v].jwt_token = NULL
        /\ Len(subscriptions[v].target_url) = 2
        /\ subscriptions[w].type = WebhookTypePrivate
        /\ subscriptions[w].jwt_token # NULL
        /\ Len(subscriptions[w].target_url) = 1
        /\ Len(subscriptions[w].secret_token) = 2 * HMACKeyLength

(* The step is a call of VerifyWebhook whose subscription lookup did not   *)
(* fail in the store                                                       *)
Verified == Len(verifications') = Len(verifications) + 1 /\ storageFaults' = storageFaults

(* The request VerifyWebhook was called with in this step, and its answer  *)
Inbound == verifications'[Len(verifications')]

(* A validly signed, unexpired token of the service *)
TokenVerifies(token) ==
    /\ token.parses
    /\ token.alg \in SigningMethodHMAC
    /\ token.key = JwtSecret
    /\ token.claims.exp > now
    /\ token.claims.nbf <= now

C30_TokenBoundToSubscription ==
    [][Verified =>
          LET v == Inbound
              w == v.webhook_id
          IN  (/\ w \in DOMAIN subscriptions
               /\ subscriptions[w].type = WebhookTypePrivate
               /\ \/ v.authorization.token.claims.webhook_id # w
                  \/ v.authorization.token.claims.tenant_id # subscriptions[w].tenant_id)
                  => v.err # NULL
      ]_vars

(* The unexpired token of subscription w2 was presented to w1 with a valid *)
(* signature and timestamp, and the request was refused for its claims     *)
C30_Witness ==
    \E k \in DOMAIN verifications :
        LET v == verifications[k]
        IN  /\ v.webhook_id = "w1"
            /\ v.authorization = [prefix |-> "Bearer ", token |-> subscriptions["w2"].jwt_token[1]]
            /\ v.err = Some("JWT token claims do not match webhook")

(* Everything VerifyWebhook checks apart from the timestamp passes for the *)
(* request v                                                               *)
ChecksBesideTimestampPass(v) ==
    LET w == v.webhook_id
    IN  /\ w \in DOMAIN subscriptions
        /\ subscriptions[w].is_active
        /\ v.signature.prefix = "sha256="
        /\ v.signature.hex = [data |-> v.payload,
                              key |-> subscriptions[w].secret_token,
                              upper |-> FALSE]
        /\ subscriptions[w].type = WebhookTypePrivate =>
               /\ v.authorization.prefix = "Bearer "
               /\ TokenVerifies(v.authorization.token)
               /\ v.authorization.token.claims.webhook_id = w
               /\ v.authorization.token.claims.tenant_id = subscriptions[w].tenant_id

(* The distance of the time t from the clock *)
Distance(t) == IF t >= now THEN t - now ELSE now - t

(* C31: the timestamp check accepts exactly the timestamps that parse as   *)
(* RFC3339 and lie at most the tolerance (5 minutes) away from now, both   *)
(* boundaries included: a request that passes every other check is         *)
(* accepted exactly if its timestamp is such a one.                        *)
C31_TimestampWindowInclusive ==
    [][Verified /\ ChecksBesideTimestampPass(Inbound) =>
          (Inbound.err = NULL <=>
               /\ Inbound.timestamp.parses
               /\ Distance(Inbound.timestamp.time) <= 5)
      ]_vars

(* C34: the persisted steps of a chain carry step_order 1..N in the order  *)
(* given at creation, and every run executes the steps in strictly         *)
(* ascending step_order, in whatever order the store returns the step      *)
(* rows: the step runs of a run are created in ascending step_order.       *)
C34_StepsRunInAscendingOrder ==
    /\ \A c \in DOMAIN chains :
           \A i \in DOMAIN chains[c].steps : chains[c].steps[i].step_order = i
    /\ \A r \in DOMAIN runs :
           \A i, j \in StepRunsOf(r) :
               i < j => stepRuns[i].step_order < stepRuns[j].step_order

(* The task of run r has returned after a step with on_success_action      *)
(* pause succeeded: the step run i of that step                            *)
PausedAt(r, i) ==
    /\ tasks[r].pc = "done"
    /\ i \in StepRunsOf(r)
    /\ StepOf(i).on_success_action = "pause"
    /\ stepRuns[i].status = WebhookStatusSent

(* C32: if a step with on_success_action pause succeeded, the run (every   *)
(* persistence call succeeding) is paused with completed_at unset and has  *)
(* no step run for any later step; and no step of the engine moves a       *)
(* paused run out of paused or touches its step runs.                      *)
C32_PauseOnSuccess ==
    /\ [](StorageReliable =>
              \A r \in DOMAIN runs : \A i \in DOMAIN stepRuns :
                  PausedAt(r, i) =>
                      /\ runs[r].status = ExecutionChainStatusPaused
                      /\ runs[r].completed_at = NULL
                      /\ \A j \in StepRunsOf(r) :
                             stepRuns[j].step_order <= stepRuns[i].step_order)
    /\ [][\A r \in DOMAIN runs :
              runs[r].status = ExecutionChainStatusPaused =>
                  /\ runs'[r] = runs[r]
                  /\ {i \in DOMAIN stepRuns' : stepRuns'[i].run_id = r} = StepRunsOf(r)
                  /\ \A i \in StepRunsOf(r) : stepRuns'[i] = stepRuns[i]]_vars

(* The on_failure_action values under which a failed step lets the run go on *)
GoOnAfterFailure == {"continue", "retry"}

C35_CurrentStepBoundsProgress ==
    /\ [](StorageReliable =>
              \A r \in DOMAIN runs :
                  /\ runs[r].current_step \in 0..runs[r].total_steps
                  /\ tasks[r].pc \in {"delay", "executeStep", "attempt", "result"}
                         => runs[r].current_step = CurrentStep(r).step_order
                  /\ \A i \in StepRunsOf(r) :
                         stepRuns[i].step_order <= runs[r].current_step)
    /\ [][\A r \in DOMAIN runs :
              runs'[r].current_step >= runs[r].current_step]_vars

(* The statuses in which the engine leaves a run for good *)
SettledRunStatuses ==
    {ExecutionChainStatusCompleted, ExecutionChainStatusFailed, ExecutionChainStatusPaused}

(* C36: if every persistence call succeeds (and every HTTP call returns    *)
(* and the process keeps running, which is the fairness of the tasks),     *)
(* every started run eventually leaves running and is completed, failed    *)
(* or paused.                                                              *)
C36_RunsSettle ==
    []StorageReliable =>
        \A r \in 1..MaxRuns :
            (r \in DOMAIN runs)
                ~> (r \in DOMAIN runs /\ runs[r].status \in SettledRunStatuses)

(* A run of two steps settled after its task went through both steps, one *)
(* of them retried, with every persistence call succeeding                 *)
C36_Witness ==
    \E r \in DOMAIN runs :
        /\ StorageReliable
        /\ tasks[r].pc = "done"
        /\ runs[r].status \in SettledRunStatuses
        /\ Cardinality(StepRunsOf(r)) = 2
        /\ \E i \in StepRunsOf(r) : stepRuns[i].attempt_count = 2

(* C37: ExecuteChain returns as soon as the run row is created, without    *)
(* waiting for a step: while the run is at any point of its execution the  *)
(* request can be answered. The run is driven by a detached task: once the *)
(* calling request is answered or cancelled the task can still take its    *)
(* next step, and the HTTP call of a step whose target is known can still  *)
(* succeed, so the end of the request neither stops nor fails the run.     *)
C37_RunDetachedFromCaller ==
    \A r \in DOMAIN tasks :
        /\ tasks[r].caller = "serving" => ENABLED ExecuteChain_return(r)
        /\ (tasks[r].caller = "done" /\ tasks[r].pc # "done")
               => ENABLED executeChainSteps(r)
        /\ (tasks[r].caller = "done" /\ tasks[r].pc = "attempt"
                /\ CurrentStep(r).webhook # NULL)
               => ENABLED (executeStep_attempt(r) /\ tasks'[r].success)

(* The request that started a run has been answered, and the run is       *)
(* completed with both of its steps sent                                   *)
C37_Witness ==
    \E r \in DOMAIN runs :
        /\ tasks[r].caller = "done"
        /\ tasks[r].pc = "done"
        /\ runs[r].status = ExecutionChainStatusCompleted
        /\ Cardinality(StepRunsOf(r)) = 2
        /\ \A i \in StepRunsOf(r) : stepRuns[i].status = WebhookStatusSent

(* The step writes the run row of run q or a step run row of run q *)
Writes(q) ==
    \/ runs'[q] # runs[q]
    \/ \E i \in DOMAIN stepRuns' :
           /\ stepRuns'[i].run_id = q
           /\ (i \in DOMAIN stepRuns => stepRuns'[i] # stepRuns[i])

(* The status the steps a run executed by itself leave it with: failed if  *)
(* one failed with on_failure_action stop, paused if one succeeded with    *)
(* on_success_action pause, completed otherwise                            *)
StatusOfOwnSteps(r) ==
    IF \E i \in StepRunsOf(r) : /\ stepRuns[i].status = WebhookStatusFailed
                                /\ StepOf(i).on_failure_action = "stop"
        THEN ExecutionChainStatusFailed
        ELSE IF \E i \in StepRunsOf(r) : /\ stepRuns[i].status = WebhookStatusSent
                                         /\ StepOf(i).on_success_action = "pause"
                 THEN ExecutionChainStatusPaused
                 ELSE ExecutionChainStatusCompleted

(* C38: under any interleaving of concurrent runs a run row and its step   *)
(* run rows are written only by the task that drives that run, one run per *)
(* step of the engine; and the state a run ends in (every persistence call *)
(* succeeding) is the one its own steps give it, as if it had run alone:   *)
(* one step run for each step it executed, all settled, and the status     *)
(* that follows from them.                                                 *)
C38_RunsDoNotInterfere ==
    /\ [][\A q \in DOMAIN runs :
              Writes(q) =>
                  /\ executeChainSteps(q)
                  /\ \A p \in DOMAIN runs \ {q} : ~Writes(p) /\ tasks'[p] = tasks[p]]_vars
    /\ [](StorageReliable =>
              \A r \in DOMAIN runs :
                  tasks[r].pc = "done" =>
                      /\ runs[r].status = StatusOfOwnSteps(r)
                      /\ \A i \in StepRunsOf(r) : stepRuns[i].status \in TerminalStepStatuses
                      /\ Cardinality(StepRunsOf(r)) = Cardinality(StepOrdersOf(r))
                      /\ runs[r].current_step \in StepOrdersOf(r))

(* Two runs of one chain were in the middle of their step at the same     *)
(* time: the run that began its step later is already paused while the     *)
(* other is about to retry                                                 *)
C38_Witness ==
    \E p, q \in DOMAIN runs :
        /\ StorageReliable
        /\ runs[p].chain_id = runs[q].chain_id
        /\ tasks[p].pc = "done"
        /\ runs[p].status = ExecutionChainStatusPaused
        /\ tasks[q].pc = "attempt"
        /\ tasks[q].attempt = 1
        /\ runs[q].status = ExecutionChainStatusRunning
        /\ \E i \in StepRunsOf(p) : tasks[q].stepRunID < i

(* C39: a persistence failure during SendEvent is returned to the caller:  *)
(* if CreateEvent (the pending row) or the final UpdateEvent failed the    *)
(* call returned an error and no result; and if the subscription query     *)
(* failed the call returned an error, no event row of the call exists, no  *)
(* request was sent and no chain was triggered.                            *)
C39_PersistenceFailurePropagated ==
    /\ \A k \in DOMAIN eventResults :
           /\ (/\ eventResults[k].found # NULL
               /\ ~(eventResults[k].created /\ eventResults[k].updated))
                  => /\ eventResults[k].err
                     /\ eventResults[k].result = NULL
           /\ eventResults[k].found = NULL
                  => /\ eventResults[k].err
                     /\ eventResults[k].result = NULL
                     /\ k \notin DOMAIN events
                     /\ eventResults[k].endpoints = <<>>
    /\ Len(triggerLog) = Cardinality({k \in DOMAIN eventResults : eventResults[k].found # NULL})

(* The subscription w belongs to the tenant of the request, subscribes to  *)
(* exactly its event and is active                                         *)
Matches(w, req) ==
    /\ subscriptions[w].tenant_id = req.tenant_id
    /\ subscriptions[w].subscribed_event = req.event
    /\ subscriptions[w].is_active

(* C40: SendEvent sends requests only to subscriptions of the request's    *)
(* tenant that subscribe to exactly the request's event and are active,    *)
(* never to a subscription of another tenant or event or to an inactive    *)
(* one; no subscription gets two requests for one event, and once the      *)
(* deliveries are over every matching subscription has exactly one         *)
(* delivery outcome.                                                       *)
C40_OnlyMatchingSubscriptionsDelivered ==
    /\ \A i \in DOMAIN requests :
           Matches(requests[i].webhook_id, sends[requests[i].event_id].request)
    /\ \A i, j \in DOMAIN requests : requests[i] = requests[j] => i = j
    /\ \A c \in DOMAIN sends :
           (sends[c].found # NULL /\ sends[c].pc \in {"trigger", "done"}) =>
               /\ {sends[c].webhooks[i].webhook_id : i \in DOMAIN sends[c].webhooks}
                      = {w \in DOMAIN subscriptions : Matches(w, sends[c].request)}
               /\ \A i, j \in DOMAIN sends[c].webhooks :
                      sends[c].webhooks[i].webhook_id = sends[c].webhooks[j].webhook_id
                          => i = j

(* An event of acme was delivered to its two active subscriptions and to   *)
(* nothing else, while an inactive subscription of acme and a subscription *)
(* of globex to the same event exist                                       *)
C40_Witness ==
    \E c \in DOMAIN sends :
        /\ sends[c].pc = "done"
        /\ sends[c].request = [tenant_id |-> "acme", event |-> "order.placed"]
        /\ {requests[i].webhook_id : i \in {j \in DOMAIN requests : requests[j].event_id = c}}
               = {"w1", "w2"}
        /\ ~subscriptions["w3"].is_active
        /\ subscriptions["w3"].tenant_id = "acme"
        /\ subscriptions["w4"].subscribed_event = "order.placed"
        /\ subscriptions["w4"].tenant_id = "globex"

====
